---- MODULE Spec2Model ----
(***************************************************************************)
(* Verification model of the IMScraper enrichment worker                   *)
(* (src/background_worker.py) and of the Flask front end (src/app.py)      *)
(* that shares the jobs/ and results/ directories with it.                 *)
(*                                                                         *)
(* Three specifications share this module:                                 *)
(*   SpecRL   RateLimiter.wait_if_needed called by concurrent tasks        *)
(*   SpecURL  process_job's URL loop: process_url_with_timeout,            *)
(*            process_url, the source adapters and their rate limiters     *)
(*   Spec     the job life cycle on the shared directories: submit_job,    *)
(*            cancel_job, job_status, the worker's main loop, process_job  *)
(***************************************************************************)
EXTENDS Integers, Sequences, FiniteSets, TLC

VARIABLES
    \* ---- RateLimiter objects (background_worker.py 40-66) ----
    clock,            \* time.time(), in seconds
    calls,            \* RateLimiter.calls, per limiter: sequence of timestamps
    lock,             \* RateLimiter.lock, per limiter: Free or the holding task
    calls_per_unit,   \* RateLimiter.calls_per_unit, per limiter
    unit_time,        \* RateLimiter.unit_time, per limiter
    \* ---- tasks of SpecRL, each calling wait_if_needed once ----
    tpc,              \* position of each task inside wait_if_needed
    tnow,             \* the local variable `now` of each task
    twake,            \* the time the task's asyncio.sleep is due
    tret,             \* <<the time wait_if_needed returned to the task>>, or << >>
    \* ---- the shared directories (JOBS_DIR, RESULTS_DIR) ----
    descr,            \* jobs/<id>.json, per job id: the descriptor file
    status,           \* jobs/<id>.status, per job id: the status record file
    artifact,         \* results/<id>.ods, per job id
    quarantined,      \* job ids whose descriptor was renamed to <id>.json.error
    submitted,        \* job ids submit_job has generated (uuid4: never reused)
    maxProgress,      \* per job id: the highest progress a status record has shown
    \* ---- the worker process (main, process_job) ----
    wpc,              \* position of the worker
    wtodo,            \* file names of the os.listdir snapshot not yet visited
    wjob,             \* job_id of the job being processed, or NoJob
    wn,               \* len(urls) of the loaded job_data
    results,          \* the list `results` of process_job
    raised,           \* an exception was raised inside process_job's try block
    updates,          \* the per-URL progress records process_job has written
    \* ---- the front end (one cancel_job request in flight at a time) ----
    cjob,             \* job id of the cancel_job request in flight, or NoJob
    cpc,              \* position of that request
    cdata,            \* its local variable status_data
    \* ---- one job's URL loop (process_job 528-565) in SpecURL ----
    job_data,         \* the descriptor main loaded (674)
    ui,               \* the loop index i: the number of URLs already done
    upc,              \* position: "loop", a stage of process_url, or "build"
    uphase,           \* inside a stage: "enter", "sleep" (limiter), "call"
    ustart,           \* the time asyncio.wait_for was entered (468)
    ud,               \* the time the pending await still needs to settle
    unow,             \* the local `now` of the pending wait_if_needed
    status_code,      \* locals of process_url (370-381)
    secure_result,
    majestic_result,
    ahrefs_result,
    dataforseo_result,
    result,           \* the record just appended to results (538, 565)
    upath,            \* the path that built it
    ucalls,           \* the limiters' histories when the pending await began
    ustartcalls,      \* the limiters' histories when the URL was started
    \* ---- the worker process over its restarts (main 630-716) in SpecMain ----
    wstart,           \* names of the startup listing (643) not yet visited
    stale,            \* status records that listing found without a descriptor
    cleaned,          \* status records the startup cleanup has removed (647)
    wloaded,          \* process_job calls since the last os.listdir of 661
    \* ---- persisting the artifact (314-361, 589-596) in SpecPersist ----
    attempt,          \* the loop variable of retry_on_os_error's wrapper (99)
    oserrors,         \* how many more writes to RESULTS_DIR are going to fail
    \* ---- one call of a source adapter (112-312) in SpecAdapter ----
    adapter,          \* the adapter called
    api_key,          \* its argument api_key
    aurl,             \* its argument url
    apc,              \* its position: the request it is at, or how it ended
    aouts,            \* the outcomes of the requests it has sent
    aret,             \* its local results, and in the end its return value
    \* ---- the retention pass of main (685-709) in SpecRetain ----
    old,              \* jobs whose status file is older than 24 hours (693)
    rlist,            \* names of the listing of 687 not yet visited
    rjob,             \* the job whose files are being removed (699-706)
    rfiles,           \* the files of the loop at 704 still to come
    rchecked,         \* os.path.exists (705) has answered True for the first
    \* ---- one call of export_to_ods (314-361) in SpecExport ----
    export_args,      \* its arguments: results and the three use_ flags
    headers,          \* its local headers (320-327)
    table,            \* the rows added to the table so far (329-355)
    xpc               \* its position

limVars == <<clock, calls, lock, calls_per_unit, unit_time>>
rlVars  == <<tpc, tnow, twake, tret>>
notJobVars == <<clock, calls, lock, calls_per_unit, unit_time,
                tpc, tnow, twake, tret>>
fileVars == <<descr, status, artifact, quarantined, submitted, maxProgress>>
workerVars == <<wpc, wtodo, wjob, wn, results, raised, updates>>
frontVars == <<cjob, cpc, cdata>>
urlVars == <<job_data, ui, upc, uphase, ustart, ud, unow, status_code,
             secure_result, majestic_result, ahrefs_result,
             dataforseo_result, result, upath, ucalls, ustartcalls>>
jobVars == <<descr, status, artifact, quarantined, submitted, maxProgress,
             wpc, wtodo, wjob, wn, results, raised, updates,
             cjob, cpc, cdata>>
mainVars == <<wstart, stale, cleaned, wloaded>>
persistVars == <<attempt, oserrors>>
adapterVars == <<adapter, api_key, aurl, apc, aouts, aret>>
retainVars == <<old, rlist, rjob, rfiles, rchecked>>
exportVars == <<export_args, headers, table, xpc>>
extVars == <<wstart, stale, cleaned, wloaded,
             attempt, oserrors,
             adapter, api_key, aurl, apc, aouts, aret,
             old, rlist, rjob, rfiles, rchecked,
             export_args, headers, table, xpc>>
vars    == <<clock, calls, lock, calls_per_unit, unit_time,
             tpc, tnow, twake, tret,
             descr, status, artifact, quarantined, submitted, maxProgress,
             wpc, wtodo, wjob, wn, results, raised, updates,
             cjob, cpc, cdata,
             job_data, ui, upc, uphase, ustart, ud, unow, status_code,
             secure_result, majestic_result, ahrefs_result,
             dataforseo_result, result, upath, ucalls, ustartcalls,
             wstart, stale, cleaned, wloaded,
             attempt, oserrors,
             adapter, api_key, aurl, apc, aouts, aret,
             old, rlist, rjob, rfiles, rchecked,
             export_args, headers, table, xpc>>

\* an asyncio.Lock is free or held by one task; a return time is absent or set
Free == << >>
Held(t) == <<t>>

Limiters == {"majestic", "ahrefs", "dataforseo"}

\* background_worker.py 64-66: the limiters the worker constructs
ahrefs_limiter == [calls_per_unit |-> 60, unit_time |-> 60]
majestic_limiter == [calls_per_unit |-> 300, unit_time |-> 1]
dataforseo_limiter == [calls_per_unit |-> 500, unit_time |-> 60]

ConfiguredCalls == [majestic |-> majestic_limiter.calls_per_unit,
                    ahrefs |-> ahrefs_limiter.calls_per_unit,
                    dataforseo |-> dataforseo_limiter.calls_per_unit]
ConfiguredTime == [majestic |-> majestic_limiter.unit_time,
                   ahrefs |-> ahrefs_limiter.unit_time,
                   dataforseo |-> dataforseo_limiter.unit_time]

(***************************************************************************)
(* Bounds                                                                  *)
(***************************************************************************)
NTasks  == 3     \* tasks calling one limiter in SpecRL
MaxK    == 2     \* calls_per_unit ranges over 1..MaxK in SpecRL
MaxW    == 2     \* unit_time ranges over 1..MaxW in SpecRL
MaxTime == 4     \* the clock of SpecRL stops here
MaxUrls == 2     \* a submitted job has 0..MaxUrls URLs

\* the job identifiers submit_job generates, in the order it generates them
JobSeq == <<"a", "b">>
\* the name of a file some other program puts into JOBS_DIR
ForeignIds == {"x"}
JobIds == {JobSeq[k] : k \in 1..Len(JobSeq)} \cup ForeignIds
NoJob == "none"

Tasks == 1..NTasks

(***************************************************************************)
(* RateLimiter.wait_if_needed, background_worker.py 48-61                  *)
(***************************************************************************)
\* line 52: self.calls = [c for c in self.calls if now - c < self.unit_time]
CleanOldCalls(cs, now, W) == SelectSeq(cs, LAMBDA c : now - c < W)

\* a limiter that lets one more call through than its policy says
LimitExceeded(cs, K) == Len(cs) > K

\* line 54: if len(self.calls) >= self.calls_per_unit
LimitReached(cs, K) == Len(cs) >= K

\* line 55: sleep_time = self.calls[0] + self.unit_time - now
SleepTime(cs, now, W) == cs[1] + W - now

\* the timestamp line 61 appends: the `now` read at line 50, before any sleep
\* (current is the time at which line 61 runs)
RecordedTime(now, current) == now

\* line 59 and line 61 after the sleep: self.calls = self.calls[1:]; append
AfterLimit(cs, now, current) == Append(Tail(cs), RecordedTime(now, current))

\* line 61 when the limit is not reached
Admit(cs, now) == Append(cs, RecordedTime(now, now))

\* a lock that stays with its holder
LockKept(holder) == holder

\* `async with self.lock` (49) is left, by line 61 or by an exception:
\* __aexit__ releases the lock
LockOnExit(holder) == Free

\* The limiter every task of SpecRL calls
RL == "ahrefs"

InitLimiterRL ==
    /\ clock = 0
    /\ calls = [l \in Limiters |-> << >>]
    /\ lock = [l \in Limiters |-> Free]
    /\ \E k \in 1..MaxK : calls_per_unit = [l \in Limiters |-> k]
    /\ \E w \in 1..MaxW : unit_time = [l \in Limiters |-> w]

InitTasks ==
    /\ tpc = [t \in Tasks |-> "idle"]
    /\ tnow = [t \in Tasks |-> 0]
    /\ twake = [t \in Tasks |-> 0]
    /\ tret = [t \in Tasks |-> << >>]

\* a task calls wait_if_needed and queues for the lock (line 49)
RLCall(t) ==
    /\ tpc[t] = "idle"
    /\ tpc' = [tpc EXCEPT ![t] = "lock"]
    /\ UNCHANGED <<tnow, twake, tret>>
    /\ UNCHANGED limVars
    /\ UNCHANGED jobVars
    /\ UNCHANGED urlVars
    /\ UNCHANGED extVars

\* lines 49-58 (or 49-61 when no sleep is needed): the lock is acquired and
\* the code runs without suspension up to the sleep or to the return
RLEnter(t) ==
    /\ tpc[t] = "lock"
    /\ lock[RL] = Free
    /\ LET now == clock
           cs  == CleanOldCalls(calls[RL], now, unit_time[RL])
       IN IF LimitReached(cs, calls_per_unit[RL])
          THEN IF SleepTime(cs, now, unit_time[RL]) > 0
               THEN /\ calls' = [calls EXCEPT ![RL] = cs]
                    /\ lock' = [lock EXCEPT ![RL] = Held(t)]
                    /\ tpc' = [tpc EXCEPT ![t] = "sleep"]
                    /\ tnow' = [tnow EXCEPT ![t] = now]
                    /\ twake' = [twake EXCEPT ![t] =
                                    now + SleepTime(cs, now, unit_time[RL])]
                    /\ UNCHANGED tret
               ELSE /\ calls' = [calls EXCEPT ![RL] = AfterLimit(cs, now, clock)]
                    /\ tpc' = [tpc EXCEPT ![t] = "done"]
                    /\ tret' = [tret EXCEPT ![t] = <<clock>>]
                    /\ UNCHANGED <<lock, tnow, twake>>
          ELSE /\ calls' = [calls EXCEPT ![RL] = Admit(cs, now)]
               /\ tpc' = [tpc EXCEPT ![t] = "done"]
               /\ tret' = [tret EXCEPT ![t] = <<clock>>]
               /\ UNCHANGED <<lock, tnow, twake>>
    /\ UNCHANGED <<clock, calls_per_unit, unit_time>>
    /\ UNCHANGED jobVars
    /\ UNCHANGED urlVars
    /\ UNCHANGED extVars

\* lines 58-61: the sleep is over (the event loop may resume the task late),
\* the oldest call is dropped, the call is recorded, the lock is released
RLWake(t) ==
    /\ tpc[t] = "sleep"
    /\ clock >= twake[t]
    /\ calls' = [calls EXCEPT ![RL] = AfterLimit(calls[RL], tnow[t], clock)]
    /\ lock' = [lock EXCEPT ![RL] = LockOnExit(@)]
    /\ tpc' = [tpc EXCEPT ![t] = "done"]
    /\ tret' = [tret EXCEPT ![t] = <<clock>>]
    /\ UNCHANGED <<tnow, twake>>
    /\ UNCHANGED <<clock, calls_per_unit, unit_time>>
    /\ UNCHANGED jobVars
    /\ UNCHANGED urlVars
    /\ UNCHANGED extVars

\* time passes
Tick ==
    /\ clock < MaxTime
    /\ clock' = clock + 1
    /\ UNCHANGED <<calls, lock, calls_per_unit, unit_time>>
    /\ UNCHANGED rlVars
    /\ UNCHANGED jobVars
    /\ UNCHANGED urlVars
    /\ UNCHANGED extVars

\* the coroutine that got its admission asks for the next one (the adapters
\* call wait_if_needed before every request: 121, 156, 171, 191, 262, 281)
RLAgain(t) ==
    /\ tpc[t] = "done"
    /\ clock < MaxTime
    /\ tpc' = [tpc EXCEPT ![t] = "lock"]
    /\ tret' = [tret EXCEPT ![t] = << >>]
    /\ UNCHANGED <<tnow, twake>>
    /\ UNCHANGED limVars
    /\ UNCHANGED jobVars
    /\ UNCHANGED urlVars
    /\ UNCHANGED extVars

\* time passes, for as long as calls are made or a caller is waiting
Elapse ==
    /\ \/ clock < MaxTime
       \/ \E t \in Tasks : tpc[t] = "sleep" /\ clock < twake[t]
    /\ clock' = clock + 1
    /\ UNCHANGED <<calls, lock, calls_per_unit, unit_time>>
    /\ UNCHANGED rlVars
    /\ UNCHANGED jobVars
    /\ UNCHANGED urlVars
    /\ UNCHANGED extVars

(***************************************************************************)
(* Files of the shared directories.  A file is absent, empty (opened with  *)
(* mode 'w' and not yet written: open() truncates, the data reaches the    *)
(* file when the with-block closes it), unparseable, or holds JSON.        *)
(***************************************************************************)
NoFile  == [kind |-> "nofile"]
Empty   == [kind |-> "empty"]
Garbled == [kind |-> "garbled"]

Exists(f) == f.kind # "nofile"
IsJson(f) == f.kind = "json"

\* a file that holds JSON but no object (a list, a number): json.load (674)
\* returns it, job_data.get (503) raises AttributeError
NotAJob == [kind |-> "jsonvalue"]

\* json.load returns a value
Parses(f) == f.kind \in {"json", "jsonvalue"}

\* the status codes a ResultRecord can carry: an HTTP status or "N/A"
\* (process_url 370-375), "Timeout" (477), "Error" (544)
StatusCodes == {"200", "Timeout"}

\* a ResultRecord as process_job's control flow sees it: the URL it is for
\* (its index in the descriptor's list) and its status_code
ResultRecord(i, code) == [url |-> i, status_code |-> code]

\* app.py 77-91: the descriptor submit_job writes, as far as process_job's
\* control flow reads it (the URL list, by its length)
Descriptor(n) == [kind |-> "json", urls |-> n]

\* background_worker.py 517: the record written on claim
ClaimRecord(n) ==
    [kind |-> "json", status |-> "processing", progress |-> 0, total |-> n]

\* a loop that reported the 0-based index itself
ProgressIndex(i) == i

\* background_worker.py 568: progress = i + 1, i the 0-based loop index
ProgressValue(i) == i + 1

\* background_worker.py 573-580: the record written after the URL of index
\* i; the two timings are floats whose values play no role
ProgressRecord(i, n) ==
    [kind |-> "json", status |-> "processing",
     progress |-> ProgressValue(i), total |-> n,
     elapsed_seconds |-> "float", estimated_remaining_seconds |-> "float"]

\* background_worker.py 600: URLs whose status_code is not a sentinel
Successful(rs) ==
    Cardinality({k \in 1..Len(rs) :
                    rs[k].status_code \notin {"Timeout", "Error", "N/A"}})

\* background_worker.py 604-614
CompletedRecord(rs, n) ==
    [kind |-> "json", status |-> "completed", progress |-> Len(rs),
     total |-> n, successful |-> Successful(rs),
     errors |-> Len(rs) - Successful(rs),
     duration_seconds |-> "float", avg_time_per_url |-> "float",
     download_url |-> "/download_result/<job_id>"]

\* background_worker.py 622-628
ErrorRecord(rs, n) ==
    [kind |-> "json", status |-> "error", error |-> "str(e)",
     progress |-> Len(rs), total |-> n]

\* app.py 204: status_data['status'] = 'cancelled', the other fields kept
CancelledRecord(data) == [data EXCEPT !.status = "cancelled"]

\* background_worker.py 594-596: the artifact, one row per result
Artifact(rs) == [kind |-> "ods", rows |-> rs]

\* open(path, 'w'): the file is created or truncated
Truncated(f) == Empty

\* The length of a status record's JSON text, as a rank between bounds.
\* The three-field records (517, and 204-205 applied to it) are the
\* shortest; the error record (623-628) adds str(e), of any length; the
\* records with the two timings (574-580, and 204-205 applied to them) vary
\* with the digits of the floats; the completed record (605-614), with its
\* eight fields, is longer than all but an error record with a long text.
MinSize(f) ==
    IF f.status = "completed" THEN 5
    ELSE IF f.status = "error" THEN 2
    ELSE IF "elapsed_seconds" \in DOMAIN f THEN 3
    ELSE 1

MaxSize(f) ==
    IF f.status = "completed" THEN 5
    ELSE IF f.status = "error" THEN 9
    ELSE IF "elapsed_seconds" \in DOMAIN f THEN 4
    ELSE 1

\* json.dump and close on a file opened with 'w'.  The writer's bytes land
\* at offset 0: on the file it truncated they are the whole content; when
\* another writer has written since, they replace the head of that content,
\* and what is left of a longer content behind them makes a text json.load
\* rejects; on a file removed meanwhile nothing is visible.
Flushed(f, rec) ==
    IF f.kind = "nofile" THEN {NoFile}
    ELSE IF f.kind = "empty" THEN {rec}
    ELSE IF f.kind = "garbled" THEN {rec, Garbled}
    ELSE IF MinSize(f) > MaxSize(rec) THEN {Garbled}
    ELSE IF MaxSize(f) <= MinSize(rec) THEN {rec}
    ELSE {rec, Garbled}

\* the highest progress shown so far, m, after the file becomes f
Shown(m, f) == IF IsJson(f) /\ f.progress > m THEN f.progress ELSE m

InitJobs ==
    /\ descr = [j \in JobIds |-> NoFile]
    /\ status = [j \in JobIds |-> NoFile]
    /\ artifact = [j \in JobIds |-> NoFile]
    /\ quarantined = {}
    /\ submitted = {}
    /\ maxProgress = [j \in JobIds |-> 0]
    /\ wpc = "scan"
    /\ wtodo = {}
    /\ wjob = NoJob
    /\ wn = 0
    /\ results = << >>
    /\ raised = FALSE
    /\ updates = << >>
    /\ cjob = NoJob
    /\ cpc = "idle"
    /\ cdata = NoFile

IdleLimiter ==
    /\ clock = 0
    /\ calls = [l \in Limiters |-> << >>]
    /\ lock = [l \in Limiters |-> Free]
    /\ calls_per_unit = ConfiguredCalls
    /\ unit_time = ConfiguredTime

(***************************************************************************)
(* The front end, app.py                                                   *)
(***************************************************************************)
\* submit_job, app.py 74 and 89-90: a fresh job id, open(job_file_path, 'w')
SubmitOpen(j) ==
    /\ Cardinality(submitted) < Len(JobSeq)
    /\ j = JobSeq[Cardinality(submitted) + 1]
    /\ submitted' = submitted \cup {j}
    /\ descr' = [descr EXCEPT ![j] = Truncated(descr[j])]
    /\ UNCHANGED <<status, artifact, quarantined, maxProgress>>
    /\ UNCHANGED workerVars
    /\ UNCHANGED frontVars
    /\ UNCHANGED notJobVars
    /\ UNCHANGED urlVars
    /\ UNCHANGED extVars

\* submit_job, app.py 91: json.dump(job_data, f) and close.  cleaned_urls
\* (line 71) may be empty: line 55 tests the list before it is cleaned.
\* n is fixed when job_data is built (77-86); nothing reads it before here.
SubmitFlush(j, n) ==
    /\ descr[j] = Empty
    /\ \E f \in Flushed(descr[j], Descriptor(n)) : descr' = [descr EXCEPT ![j] = f]
    /\ UNCHANGED <<status, artifact, quarantined, submitted, maxProgress>>
    /\ UNCHANGED workerVars
    /\ UNCHANGED frontVars
    /\ UNCHANGED notJobVars
    /\ UNCHANGED urlVars
    /\ UNCHANGED extVars

\* cancel_job, app.py 190-195: remove the descriptor if it exists
CancelRemove(j) ==
    /\ cjob = NoJob
    /\ j \in submitted
    /\ cjob' = j
    /\ cpc' = "check"
    /\ descr' = [descr EXCEPT ![j] = NoFile]
    /\ UNCHANGED <<status, artifact, quarantined, submitted, maxProgress, cdata>>
    /\ UNCHANGED workerVars
    /\ UNCHANGED notJobVars
    /\ UNCHANGED urlVars
    /\ UNCHANGED extVars

\* cancel_job, app.py 198-202: read the status record if it exists; an
\* unparseable record raises in json.load and the request ends with 500
CancelRead ==
    /\ cpc = "check"
    /\ IF IsJson(status[cjob]) /\ status[cjob].status = "processing"
       THEN /\ cdata' = status[cjob]
            /\ cpc' = "open"
            /\ UNCHANGED cjob
       ELSE /\ cdata' = NoFile
            /\ cpc' = "idle"
            /\ cjob' = NoJob
    /\ UNCHANGED fileVars
    /\ UNCHANGED workerVars
    /\ UNCHANGED notJobVars
    /\ UNCHANGED urlVars
    /\ UNCHANGED extVars

\* cancel_job, app.py 203: open(status_file, 'w')
CancelOpen ==
    /\ cpc = "open"
    /\ status' = [status EXCEPT ![cjob] = Truncated(status[cjob])]
    /\ UNCHANGED maxProgress
    /\ cpc' = "flush"
    /\ UNCHANGED <<cjob, cdata>>
    /\ UNCHANGED <<descr, artifact, quarantined, submitted>>
    /\ UNCHANGED workerVars
    /\ UNCHANGED notJobVars
    /\ UNCHANGED urlVars
    /\ UNCHANGED extVars

\* cancel_job, app.py 204-205: the record read at line 200, status flipped
CancelFlush ==
    /\ cpc = "flush"
    /\ \E f \in Flushed(status[cjob], CancelledRecord(cdata)) :
           /\ status' = [status EXCEPT ![cjob] = f]
           /\ maxProgress' = [maxProgress EXCEPT ![cjob] = Shown(@, f)]
    /\ cpc' = "idle"
    /\ cjob' = NoJob
    /\ cdata' = NoFile
    /\ UNCHANGED <<descr, artifact, quarantined, submitted>>
    /\ UNCHANGED workerVars
    /\ UNCHANGED notJobVars
    /\ UNCHANGED urlVars
    /\ UNCHANGED extVars

\* job_status, app.py 113-145: what the endpoint answers for job j
JobStatusResponse(j) ==
    IF ~Exists(status[j])
    THEN IF Exists(descr[j]) THEN [kind |-> "queued", job |-> j]
                             ELSE [kind |-> "not_found", job |-> j]
    ELSE IF ~IsJson(status[j])
         THEN [kind |-> "error500", job |-> j]
         ELSE [kind |-> "status", job |-> j, status |-> status[j].status,
               progress |-> status[j].progress]


(***************************************************************************)
(* The worker: main's loop (651-716) and process_job (500-628)             *)
(***************************************************************************)
\* main, 661: os.listdir(JOBS_DIR), the names ending in .json
ListJobs ==
    /\ wpc = "scan"
    /\ wtodo' = {j \in JobIds : Exists(descr[j])}
    /\ wpc' = "iter"
    /\ UNCHANGED <<wjob, wn, results, raised, updates>>
    /\ UNCHANGED fileVars
    /\ UNCHANGED frontVars
    /\ UNCHANGED notJobVars
    /\ UNCHANGED urlVars

W_List ==
    /\ ListJobs
    /\ UNCHANGED extVars

\* main, 662-669: the next name of the listing; a job with a status record
\* is skipped
W_Skip(j) ==
    /\ wpc = "iter"
    /\ j \in wtodo
    /\ Exists(status[j])
    /\ wtodo' = wtodo \ {j}
    /\ UNCHANGED <<wpc, wjob, wn, results, raised, updates>>
    /\ UNCHANGED fileVars
    /\ UNCHANGED frontVars
    /\ UNCHANGED notJobVars
    /\ UNCHANGED urlVars
    /\ UNCHANGED extVars

\* main, 672-674 and 682-683: the descriptor is gone since the listing;
\* open() raises, the exception is logged
W_LoadMissing(j) ==
    /\ wpc = "iter"
    /\ j \in wtodo
    /\ ~Exists(status[j])
    /\ ~Exists(descr[j])
    /\ wtodo' = wtodo \ {j}
    /\ UNCHANGED <<wpc, wjob, wn, results, raised, updates>>
    /\ UNCHANGED fileVars
    /\ UNCHANGED frontVars
    /\ UNCHANGED notJobVars
    /\ UNCHANGED urlVars
    /\ UNCHANGED extVars

\* main, 672-674 and 679-681: json.load raises JSONDecodeError, the
\* descriptor is renamed to <name>.json.error
W_LoadInvalid(j) ==
    /\ wpc = "iter"
    /\ j \in wtodo
    /\ ~Exists(status[j])
    /\ Exists(descr[j]) /\ ~Parses(descr[j])
    /\ wtodo' = wtodo \ {j}
    /\ descr' = [descr EXCEPT ![j] = NoFile]
    /\ quarantined' = quarantined \cup {j}
    /\ UNCHANGED <<status, artifact, submitted, maxProgress>>
    /\ UNCHANGED <<wpc, wjob, wn, results, raised, updates>>
    /\ UNCHANGED frontVars
    /\ UNCHANGED notJobVars
    /\ UNCHANGED urlVars
    /\ UNCHANGED extVars

\* main, 672-677 and process_job 502-513: the descriptor is loaded and
\* process_job is entered
LoadJob(j) ==
    /\ wpc = "iter"
    /\ j \in wtodo
    /\ ~Exists(status[j])
    /\ IsJson(descr[j])
    /\ wtodo' = wtodo \ {j}
    /\ wjob' = j
    /\ wn' = descr[j].urls
    /\ results' = << >>
    /\ raised' = FALSE
    /\ updates' = << >>
    /\ wpc' = "claim_open"
    /\ UNCHANGED fileVars
    /\ UNCHANGED frontVars
    /\ UNCHANGED notJobVars
    /\ UNCHANGED urlVars

W_Load(j) ==
    /\ LoadJob(j)
    /\ UNCHANGED extVars

\* a step of the worker that replaces the status record of its job
W_Status(from, to, f) ==
    /\ wpc = from
    /\ wpc' = to
    /\ status' = [status EXCEPT ![wjob] = f]
    /\ maxProgress' = [maxProgress EXCEPT ![wjob] = Shown(@, f)]
    /\ UNCHANGED <<descr, artifact, quarantined, submitted>>
    /\ UNCHANGED <<wtodo, wjob, wn, results, raised>>
    /\ UNCHANGED frontVars
    /\ UNCHANGED notJobVars
    /\ UNCHANGED urlVars
    /\ UNCHANGED extVars

\* process_job, 516: open(<job_id>.status, 'w')
W_ClaimOpen ==
    /\ W_Status("claim_open", "claim_flush", Truncated(status[wjob]))
    /\ UNCHANGED updates

\* process_job, 517
W_ClaimFlush ==
    /\ wpc = "claim_flush"
    /\ \E f \in Flushed(status[wjob], ClaimRecord(wn)) :
           W_Status("claim_flush", "session", f)
    /\ UNCHANGED updates

\* process_job, 521-525: the connector and the session, results = []
W_Session ==
    /\ wpc = "session"
    /\ wpc' = IF Len(results) < wn THEN "url" ELSE "export"
    /\ UNCHANGED <<wtodo, wjob, wn, results, raised, updates>>
    /\ UNCHANGED fileVars
    /\ UNCHANGED frontVars
    /\ UNCHANGED notJobVars
    /\ UNCHANGED urlVars
    /\ UNCHANGED extVars

\* a loop in which the per-URL deadline ends the job: the timeout reaches
\* the handler of 619
AbortOnTimeout(code) == IF code = "Timeout" THEN "err_open" ELSE "prog_open"

\* process_job, 538 and 565-573: whatever the outcome of the URL, a record
\* was appended and the loop body goes on to the progress update
AfterUrl(code) == "prog_open"

\* process_job, 528-565: one URL; process_url_with_timeout returns a record
\* (an HTTP status, "N/A" or "Timeout") or raises, and the placeholder with
\* "Error" is appended instead
W_Url(code) ==
    /\ wpc = "url"
    /\ results' = Append(results, ResultRecord(Len(results) + 1, code))
    /\ wpc' = AfterUrl(code)
    /\ UNCHANGED <<wtodo, wjob, wn, raised, updates>>
    /\ UNCHANGED fileVars
    /\ UNCHANGED frontVars
    /\ UNCHANGED notJobVars
    /\ UNCHANGED urlVars
    /\ UNCHANGED extVars

\* process_job, 573: open(<job_id>.status, 'w')
W_ProgressOpen ==
    /\ W_Status("prog_open", "prog_flush", Truncated(status[wjob]))
    /\ UNCHANGED updates

\* process_job, 574-580, and the loop's next iteration or its end
W_ProgressFlush ==
    /\ wpc = "prog_flush"
    /\ \E f \in Flushed(status[wjob], ProgressRecord(Len(results) - 1, wn)) :
           W_Status("prog_flush",
                    IF Len(results) < wn THEN "url" ELSE "export", f)
    /\ updates' = Append(updates, ProgressRecord(Len(results) - 1, wn))

\* process_job, 589-591: export_to_ods
W_Export ==
    /\ wpc = "export"
    /\ wpc' = "save"
    /\ UNCHANGED <<wtodo, wjob, wn, results, raised, updates>>
    /\ UNCHANGED fileVars
    /\ UNCHANGED frontVars
    /\ UNCHANGED notJobVars
    /\ UNCHANGED urlVars
    /\ UNCHANGED extVars

\* process_job, 593-601: the result file is written
W_Save ==
    /\ wpc = "save"
    /\ wpc' = "done_open"
    /\ artifact' = [artifact EXCEPT ![wjob] = Artifact(results)]
    /\ UNCHANGED <<descr, status, quarantined, submitted, maxProgress>>
    /\ UNCHANGED <<wtodo, wjob, wn, results, raised, updates>>
    /\ UNCHANGED frontVars
    /\ UNCHANGED notJobVars
    /\ UNCHANGED urlVars
    /\ UNCHANGED extVars

\* process_job, 604: open(<job_id>.status, 'w')
W_DoneOpen ==
    /\ W_Status("done_open", "done_flush", Truncated(status[wjob]))
    /\ UNCHANGED updates

\* process_job, 605-617: the completed record; process_job returns
W_DoneFlush ==
    /\ wpc = "done_flush"
    /\ \E f \in Flushed(status[wjob], CompletedRecord(results, wn)) :
           W_Status("done_flush", "returned", f)
    /\ UNCHANGED updates

\* the places of the try block (519-617) at which an exception can be
\* raised: creating the session, writing the status record, the export,
\* writing the result file
TryBlock == {"session", "prog_open", "prog_flush", "export", "save",
             "done_open", "done_flush"}

\* process_job, 619-620: an exception raised in the try block is caught
W_Raise ==
    /\ wpc \in TryBlock
    /\ wpc' = "err_open"
    /\ raised' = TRUE
    /\ UNCHANGED <<wtodo, wjob, wn, results, updates>>
    /\ UNCHANGED fileVars
    /\ UNCHANGED frontVars
    /\ UNCHANGED notJobVars
    /\ UNCHANGED urlVars
    /\ UNCHANGED extVars

\* process_job, 622: open(<job_id>.status, 'w')
W_ErrorOpen ==
    /\ W_Status("err_open", "err_flush", Truncated(status[wjob]))
    /\ UNCHANGED updates

\* process_job, 623-628: the error record; process_job returns
W_ErrorFlush ==
    /\ wpc = "err_flush"
    /\ \E f \in Flushed(status[wjob], ErrorRecord(results, wn)) :
           W_Status("err_flush", "returned", f)
    /\ UNCHANGED updates

\* process_job, 622-628 and main 682-683: the handler's own write raises
\* (the open or the dump); the exception leaves process_job, main logs it
\* and the for loop of 661 goes on
W_ErrorRaise ==
    /\ wpc \in {"err_open", "err_flush"}
    /\ wpc' = "iter"
    /\ wjob' = NoJob
    /\ wn' = 0
    /\ results' = << >>
    /\ raised' = FALSE
    /\ updates' = << >>
    /\ UNCHANGED wtodo
    /\ UNCHANGED fileVars
    /\ UNCHANGED frontVars
    /\ UNCHANGED notJobVars
    /\ UNCHANGED urlVars
    /\ UNCHANGED extVars

\* main, 677: process_job has returned; the for loop of 661 goes on
W_Return ==
    /\ wpc = "returned"
    /\ wpc' = "iter"
    /\ wjob' = NoJob
    /\ wn' = 0
    /\ results' = << >>
    /\ raised' = FALSE
    /\ updates' = << >>
    /\ UNCHANGED wtodo
    /\ UNCHANGED fileVars
    /\ UNCHANGED frontVars
    /\ UNCHANGED notJobVars
    /\ UNCHANGED urlVars
    /\ UNCHANGED extVars

\* main, 685-712: the listing is exhausted; the loop sleeps and starts over.
\* The retention pass of 685-709 removes nothing: Spec covers less than a
\* day of operation, so no status file is older than 24 hours (693).
W_Sleep ==
    /\ wpc = "iter"
    /\ wtodo = {}
    /\ wpc' = "scan"
    /\ UNCHANGED <<wtodo, wjob, wn, results, raised, updates>>
    /\ UNCHANGED fileVars
    /\ UNCHANGED frontVars
    /\ UNCHANGED notJobVars
    /\ UNCHANGED urlVars
    /\ UNCHANGED extVars

(***************************************************************************)
(* submit_job (app.py 40-104): from the form to the descriptor             *)
(***************************************************************************)
\* request.form.get of a field the form does not carry
None == "<None>"

\* Python truth of an API key: None and '' are false
Truthy(key) == key # None /\ key # ""

\* the URLs a form carries, as typed
UrlInputs == {" Example.com/path ", "  "}

\* url.strip() (app.py 71) on the inputs above
Strip(u) ==
    CASE u = " Example.com/path " -> "Example.com/path"
      [] u = "  "                 -> ""

\* app.py 71: cleaned_urls = [url.strip() for url in urls if url.strip()]
RECURSIVE CleanUrls(_)
CleanUrls(us) ==
    IF us = << >> THEN << >>
    ELSE IF Strip(Head(us)) # ""
         THEN <<Strip(Head(us))>> \o CleanUrls(Tail(us))
         ELSE CleanUrls(Tail(us))

\* the API keys a form carries
KeyInputs == {None, "", "key"}
DataForSeoKeyInputs == {None, "", "login:password", "nocolon"}

\* app.py 50-52: majestic_api_key = form.get(...) if use_majestic else None
FormKey(use, key) == IF use THEN key ELSE None

\* tests only that the key field is present in the form
KeyAbsent(use, key) == use /\ key = None

\* app.py 61, 64, 67: use_x and not x_api_key
KeyMissing(use, key) == use /\ ~Truthy(key)

\* app.py 55-68: the validation; the status the request is rejected with, or 200
Validate(form) ==
    IF form.urls = << >> THEN 400
    ELSE IF ~form.use_majestic /\ ~form.use_ahrefs /\ ~form.use_dataforseo
    THEN 400
    ELSE IF KeyMissing(form.use_majestic,
                       FormKey(form.use_majestic, form.majestic_api_key))
    THEN 400
    ELSE IF KeyMissing(form.use_ahrefs,
                       FormKey(form.use_ahrefs, form.ahrefs_api_key))
    THEN 400
    ELSE IF KeyMissing(form.use_dataforseo,
                       FormKey(form.use_dataforseo, form.dataforseo_api_key))
    THEN 400
    ELSE 200

\* app.py 77-86: job_data
JobData(form) ==
    [urls |-> CleanUrls(form.urls),
     use_majestic |-> form.use_majestic,
     use_ahrefs |-> form.use_ahrefs,
     use_dataforseo |-> form.use_dataforseo,
     majestic_api_key |-> FormKey(form.use_majestic, form.majestic_api_key),
     ahrefs_api_key |-> FormKey(form.use_ahrefs, form.ahrefs_api_key),
     dataforseo_api_key |->
         FormKey(form.use_dataforseo, form.dataforseo_api_key)]

(***************************************************************************)
(* process_url and process_url_with_timeout, background_worker.py 363-498  *)
(***************************************************************************)
\* number of URLs a form of SpecURL carries at most
MaxFormUrls == 2

URL_TIMEOUT == 30
DEFAULT_TIMEOUT == 15
\* timeout=10 of the status probe (372) and of check_https (309)
ProbeTimeout == 10

\* normalize_url (69-79) on the cleaned inputs: the scheme is added, the
\* text lowered, the path dropped
normalize_url(u) ==
    CASE u = "Example.com/path" -> "http://example.com"

\* get_dataforseo_data 235-240 on a normalized URL: the domain matches
\* ^([a-z0-9]+(-[a-z0-9]+)*\.)+[a-z]{2,}$
DomainFormatOk(nurl) ==
    CASE nurl = "http://example.com" -> TRUE
      [] nurl = "http://localhost"   -> FALSE

\* get_dataforseo_data 222-226: login, password = api_key.split(':')
SplitsInTwo(key) ==
    CASE key = "login:password" -> TRUE
      [] OTHER                  -> FALSE

\* process_job 508-510: majestic_api_key = job_data.get(...) if use_majestic
\* else None
JobKey(use, key) == IF use THEN key ELSE None

majestic_api_key == JobKey(job_data.use_majestic, job_data.majestic_api_key)
ahrefs_api_key == JobKey(job_data.use_ahrefs, job_data.ahrefs_api_key)
dataforseo_api_key ==
    JobKey(job_data.use_dataforseo, job_data.dataforseo_api_key)

\* the URL of the current iteration of the loop at 528
url == job_data.urls[ui + 1]

\* the awaits of process_url, in program order
Stages == <<"probe", "https", "majestic",
            "ahrefs_dr", "ahrefs_refdomains", "ahrefs_traffic",
            "dataforseo_backlinks", "dataforseo_traffic">>

StageIndex(stage) == CHOOSE k \in 1..Len(Stages) : Stages[k] = stage

\* 390, 397, 404 and the early returns of get_dataforseo_data (223-226, 240)
Runs(stage) ==
    CASE stage \in {"probe", "https"} -> TRUE
      [] stage = "majestic" -> Truthy(majestic_api_key)
      [] stage \in {"ahrefs_dr", "ahrefs_refdomains", "ahrefs_traffic"} ->
             Truthy(ahrefs_api_key)
      [] stage \in {"dataforseo_backlinks", "dataforseo_traffic"} ->
             /\ Truthy(dataforseo_api_key)
             /\ SplitsInTwo(dataforseo_api_key)
             /\ DomainFormatOk(normalize_url(url))

\* the stage that follows the k-th, or "build" (410)
RECURSIVE StageAfter(_)
StageAfter(k) ==
    IF k >= Len(Stages) THEN "build"
    ELSE IF Runs(Stages[k + 1]) THEN Stages[k + 1]
    ELSE StageAfter(k + 1)

\* the limiter a stage waits on (121, 156, 171, 191, 262, 281)
StageLimiter(stage) ==
    CASE stage = "majestic" -> "majestic"
      [] stage \in {"ahrefs_dr", "ahrefs_refdomains", "ahrefs_traffic"} ->
             "ahrefs"
      [] stage \in {"dataforseo_backlinks", "dataforseo_traffic"} ->
             "dataforseo"
      [] OTHER -> "none"

\* the timeout of the request a stage sends
StageTimeout(stage) ==
    IF stage \in {"probe", "https"} THEN ProbeTimeout ELSE DEFAULT_TIMEOUT

NA == "N/A"

\* a probe that reports the sentinel when the request fails
ProbeOrNA(ok) == IF ok THEN "Yes" ELSE NA

\* check_https 305-312: "Yes" on a 200 response, "No" on any other
\* response and on any exception
check_https(ok) == IF ok THEN "Yes" ELSE "No"

\* a request settles at once or at its own timeout
Durations(stage) == {0, StageTimeout(stage)}

NoRecord == [f \in {} |-> NA]
NoAhrefs == [dr |-> NA, refdomains |-> NA, traffic |-> NA]
NoDataForSeo == [referring_domains |-> NA, traffic |-> NA, rank |-> NA]

MajesticFields(v) == "majestic_topics" :> v
AhrefsFields(r) ==
    ("ahrefs_dr" :> r.dr) @@ ("ahrefs_refdomains" :> r.refdomains)
        @@ ("ahrefs_traffic" :> r.traffic)
DataForSeoFields(r) ==
    ("dataforseo_referring_domains" :> r.referring_domains)
        @@ ("dataforseo_traffic" :> r.traffic) @@ ("dataforseo_rank" :> r.rank)

\* a record: url, status_code, secure, and the fields of the sources for
\* which the guard (a key's truth, or a use_ flag) holds
Record(u, code, secure, withM, m, withA, a, withD, d) ==
    ("url" :> u) @@ ("status_code" :> code) @@ ("secure" :> secure)
        @@ (IF withM THEN MajesticFields(m) ELSE NoRecord)
        @@ (IF withA THEN AhrefsFields(a) ELSE NoRecord)
        @@ (IF withD THEN DataForSeoFields(d) ELSE NoRecord)

\* process_url 411-435
NormalRecord ==
    Record(normalize_url(url), status_code, secure_result,
           Truthy(majestic_api_key), majestic_result,
           Truthy(ahrefs_api_key), ahrefs_result,
           Truthy(dataforseo_api_key), dataforseo_result)

\* process_url 437-463
FallbackRecord ==
    Record(normalize_url(url), NA, NA,
           Truthy(majestic_api_key), NA,
           Truthy(ahrefs_api_key), NoAhrefs,
           Truthy(dataforseo_api_key), NoDataForSeo)

\* process_url_with_timeout 475-498
TimeoutRecord ==
    Record(url, "Timeout", NA,
           Truthy(majestic_api_key), NA,
           Truthy(ahrefs_api_key), NoAhrefs,
           Truthy(dataforseo_api_key), NoDataForSeo)

\* process_job 542-565
ErrorPlaceholder ==
    Record(url, "Error", NA,
           job_data.use_majestic, NA,
           job_data.use_ahrefs, NoAhrefs,
           job_data.use_dataforseo, NoDataForSeo)

\* the coroutine of process_job, as a holder of a limiter's lock
Worker == 0

\* a URL bounded by the timeouts of its requests alone
OwnTimeoutsOnly == ustart + Len(Stages) * DEFAULT_TIMEOUT

\* the deadline of the URL in progress (468-470)
Deadline == ustart + URL_TIMEOUT

IdleUrl ==
    /\ job_data = [urls |-> << >>, use_majestic |-> FALSE,
                   use_ahrefs |-> FALSE, use_dataforseo |-> FALSE,
                   majestic_api_key |-> None, ahrefs_api_key |-> None,
                   dataforseo_api_key |-> None]
    /\ ui = 0
    /\ upc = "loop"
    /\ uphase = "enter"
    /\ ustart = 0
    /\ ud = 0
    /\ unow = 0
    /\ status_code = NA
    /\ secure_result = NA
    /\ majestic_result = NA
    /\ ahrefs_result = NoAhrefs
    /\ dataforseo_result = NoDataForSeo
    /\ result = NoRecord
    /\ upath = "none"
    /\ ucalls = calls
    /\ ustartcalls = calls

Forms ==
    [urls : UNION {[1..n -> UrlInputs] : n \in 0..MaxFormUrls},
     use_majestic : BOOLEAN, use_ahrefs : BOOLEAN, use_dataforseo : BOOLEAN,
     majestic_api_key : KeyInputs, ahrefs_api_key : KeyInputs,
     dataforseo_api_key : DataForSeoKeyInputs]

\* a worker that has run for a while: Ahrefs was called for 20 URLs, one URL
\* a second, three calls each (155-207)
RecentAhrefsCalls == [k \in 1..ahrefs_limiter.calls_per_unit |-> (k - 1) \div 3]

\* the job main has just loaded: any descriptor submit_job accepts and writes
InitUrl ==
    /\ \/ /\ clock = 55
          /\ calls = [l \in Limiters |-> << >>]
       \/ /\ clock \in {20, 55}
          /\ calls = [l \in Limiters |->
                         IF l = "ahrefs" THEN RecentAhrefsCalls ELSE << >>]
    /\ lock = [l \in Limiters |-> Free]
    /\ calls_per_unit = ConfiguredCalls
    /\ unit_time = ConfiguredTime
    /\ \E form \in Forms :
           /\ Validate(form) = 200
           /\ job_data = JobData(form)
    /\ ui = 0
    /\ upc = "loop"
    /\ uphase = "enter"
    /\ ustart = 0
    /\ ud = 0
    /\ unow = 0
    /\ status_code = NA
    /\ secure_result = NA
    /\ majestic_result = NA
    /\ ahrefs_result = NoAhrefs
    /\ dataforseo_result = NoDataForSeo
    /\ result = NoRecord
    /\ upath = "none"
    /\ ucalls = calls
    /\ ustartcalls = calls

\* what every step of the URL loop leaves alone
UrlFrame ==
    /\ UNCHANGED <<calls_per_unit, unit_time, job_data>>
    /\ UNCHANGED rlVars
    /\ UNCHANGED jobVars
    /\ UNCHANGED extVars

\* process_job 528-531 and process_url 365-381: the next URL is taken,
\* wait_for is entered, the locals are initialised
U_Begin ==
    /\ upc = "loop"
    /\ ui < Len(job_data.urls)
    /\ upc' = "probe"
    /\ uphase' = "enter"
    /\ ustart' = clock
    /\ status_code' = NA
    /\ secure_result' = NA
    /\ majestic_result' = NA
    /\ ahrefs_result' = NoAhrefs
    /\ dataforseo_result' = NoDataForSeo
    /\ result' = NoRecord
    /\ upath' = "none"
    /\ ustartcalls' = calls
    /\ ucalls' = calls
    /\ UNCHANGED <<ui, ud, unow, clock, calls, lock>>
    /\ UrlFrame

\* process_job 539-565: an exception leaves process_url_with_timeout (raised
\* before process_url's try at 365-366, or in the handler at 473); the
\* placeholder is appended
U_BeginRaise ==
    /\ upc = "loop"
    /\ ui < Len(job_data.urls)
    /\ result' = ErrorPlaceholder
    /\ upath' = "error"
    /\ ui' = ui + 1
    /\ ustart' = clock
    /\ ustartcalls' = calls
    /\ ucalls' = calls
    /\ UNCHANGED <<upc, uphase, ud, unow, status_code, secure_result,
                   majestic_result, ahrefs_result, dataforseo_result>>
    /\ UNCHANGED <<clock, calls, lock>>
    /\ UrlFrame

\* a stage is entered.  A stage with a limiter runs wait_if_needed (48-61):
\* it blocks at line 49 while the lock is held, else it runs up to its
\* sleep, or through to line 61 and on to the request; a stage without a
\* limiter sends its request (372, 309).
U_Enter ==
    /\ upc \notin {"loop", "build"}
    /\ uphase = "enter"
    /\ LET l == StageLimiter(upc)
       IN IF l = "none"
          THEN /\ uphase' = "call"
               /\ ud' \in Durations(upc)
               /\ ucalls' = calls
               /\ UNCHANGED <<calls, lock, unow>>
          ELSE IF lock[l] # Free
          THEN /\ uphase' = "blocked"
               /\ ucalls' = calls
               /\ UNCHANGED <<calls, lock, unow, ud>>
          ELSE LET now == clock
                   cs  == CleanOldCalls(calls[l], now, unit_time[l])
               IN IF LimitReached(cs, calls_per_unit[l])
                     /\ SleepTime(cs, now, unit_time[l]) > 0
                  THEN /\ calls' = [calls EXCEPT ![l] = cs]
                       /\ lock' = [lock EXCEPT ![l] = Held(Worker)]
                       /\ unow' = now
                       /\ ud' = SleepTime(cs, now, unit_time[l])
                       /\ uphase' = "sleep"
                       /\ ucalls' = calls
                  ELSE /\ calls' = [calls EXCEPT ![l] =
                                       IF LimitReached(cs, calls_per_unit[l])
                                       THEN AfterLimit(cs, now, clock)
                                       ELSE Admit(cs, now)]
                       /\ uphase' = "call"
                       /\ ud' \in Durations(upc)
                       /\ ucalls' = calls'
                       /\ UNCHANGED <<lock, unow>>
    /\ UNCHANGED <<clock, ui, upc, ustart, status_code, secure_result,
                   majestic_result, ahrefs_result, dataforseo_result,
                   result, upath, ustartcalls>>
    /\ UrlFrame

\* wait_if_needed 58-61: the sleep is over before the deadline; the oldest
\* call is dropped, the call is recorded, the lock released, the request sent
U_Wake ==
    /\ upc \notin {"loop", "build"}
    /\ uphase = "sleep"
    /\ clock + ud <= Deadline
    /\ clock' = clock + ud
    /\ LET l == StageLimiter(upc)
       IN /\ calls' = [calls EXCEPT ![l] = AfterLimit(@, unow, clock')]
          /\ lock' = [lock EXCEPT ![l] = LockOnExit(@)]
    /\ uphase' = "call"
    /\ ud' \in Durations(upc)
    /\ ucalls' = calls'
    /\ UNCHANGED <<ui, upc, ustart, unow, status_code, secure_result,
                   majestic_result, ahrefs_result, dataforseo_result,
                   result, upath, ustartcalls>>
    /\ UrlFrame

\* the request of a stage settles before the deadline: at once with a 200
\* response (ok), or at its own timeout with the exception every stage
\* turns into "N/A" ("No" in check_https).  A request that fails at once
\* gives the values of the second case at the time of the first.
U_CallDone(ok) ==
    /\ upc \notin {"loop", "build"}
    /\ uphase = "call"
    /\ clock + ud <= Deadline
    /\ ok = (ud # StageTimeout(upc))
    /\ clock' = clock + ud
    /\ status_code' = IF upc = "probe"
                      THEN (IF ok THEN "200" ELSE NA) ELSE status_code
    /\ secure_result' = IF upc = "https"
                        THEN check_https(ok) ELSE secure_result
    /\ majestic_result' = IF upc = "majestic" /\ ok
                          THEN "topic" ELSE majestic_result
    /\ ahrefs_result' =
          IF ~ok THEN ahrefs_result
          ELSE CASE upc = "ahrefs_dr" -> [ahrefs_result EXCEPT !.dr = "v"]
                 [] upc = "ahrefs_refdomains" ->
                        [ahrefs_result EXCEPT !.refdomains = "v"]
                 [] upc = "ahrefs_traffic" ->
                        [ahrefs_result EXCEPT !.traffic = "v"]
                 [] OTHER -> ahrefs_result
    /\ dataforseo_result' =
          IF ~ok THEN dataforseo_result
          ELSE CASE upc = "dataforseo_backlinks" ->
                        [dataforseo_result EXCEPT !.referring_domains = "v",
                                                  !.rank = "v"]
                 [] upc = "dataforseo_traffic" ->
                        [dataforseo_result EXCEPT !.traffic = "v"]
                 [] OTHER -> dataforseo_result
    /\ upc' = StageAfter(StageIndex(upc))
    /\ uphase' = "enter"
    /\ UNCHANGED <<ui, ustart, ud, unow, result, upath, ucalls, ustartcalls>>
    /\ UNCHANGED <<calls, lock>>
    /\ UrlFrame

\* process_url 410-435 and process_job 538: the record is built and appended
U_Build ==
    /\ upc = "build"
    /\ result' = NormalRecord
    /\ upath' = "normal"
    /\ ui' = ui + 1
    /\ upc' = "loop"
    /\ UNCHANGED <<uphase, ustart, ud, unow, status_code, secure_result,
                   majestic_result, ahrefs_result, dataforseo_result,
                   ucalls, ustartcalls>>
    /\ UNCHANGED <<clock, calls, lock>>
    /\ UrlFrame

\* process_url 437-463: an exception raised in the try block outside the
\* stages' own handlers (while the record is built) gives the fallback
U_BuildRaise ==
    /\ upc = "build"
    /\ result' = FallbackRecord
    /\ upath' = "fallback"
    /\ ui' = ui + 1
    /\ upc' = "loop"
    /\ UNCHANGED <<uphase, ustart, ud, unow, status_code, secure_result,
                   majestic_result, ahrefs_result, dataforseo_result,
                   ucalls, ustartcalls>>
    /\ UNCHANGED <<clock, calls, lock>>
    /\ UrlFrame

\* process_url_with_timeout 468-498: the pending await (a request, or the
\* sleep of wait_if_needed) has not settled at the deadline; wait_for
\* cancels process_url, the CancelledError unwinds through `async with
\* self.lock`, and the Timeout record is returned
U_Timeout ==
    /\ upc \notin {"loop", "build"}
    /\ \/ uphase = "blocked"
       \/ uphase \in {"sleep", "call"} /\ clock + ud >= Deadline
    /\ clock' = Deadline
    /\ lock' = IF uphase = "sleep"
               THEN [lock EXCEPT ![StageLimiter(upc)] = LockOnExit(@)]
               ELSE lock
    /\ result' = TimeoutRecord
    /\ upath' = "timeout"
    /\ ui' = ui + 1
    /\ upc' = "loop"
    /\ uphase' = "enter"
    /\ UNCHANGED <<ustart, ud, unow, status_code, secure_result,
                   majestic_result, ahrefs_result, dataforseo_result,
                   ucalls, ustartcalls>>
    /\ UNCHANGED calls
    /\ UrlFrame

(***************************************************************************)
(* The source adapters, background_worker.py 112-312, one call at a time   *)
(***************************************************************************)
Adapters == {"check_https", "get_majestic_data", "get_ahrefs_data",
             "get_dataforseo_data"}

\* the normalized URLs an adapter is called with
AdapterUrls == {"http://example.com", "http://localhost"}

\* the api_key arguments of an adapter (check_https takes none)
AdapterKeys(a) ==
    CASE a = "check_https" -> {None}
      [] a = "get_dataforseo_data" -> DataForSeoKeyInputs
      [] OTHER -> KeyInputs

\* the fields of an adapter's return value; the two adapters that return a
\* string have the one field "value"
AdapterFields(a) ==
    CASE a = "get_ahrefs_data" -> {"dr", "refdomains", "traffic"}
      [] a = "get_dataforseo_data" -> {"referring_domains", "traffic", "rank"}
      [] OTHER -> {"value"}

\* what an adapter reports for what it did not obtain (115, 148, 217, 312)
Sentinel(a) == IF a = "check_https" THEN "No" ELSE NA

AllSentinel(a) == [f \in AdapterFields(a) |-> Sentinel(a)]

\* the number of requests an adapter sends (131; 157, 172, 192; 263, 282; 309)
Requests(a) ==
    CASE a = "get_ahrefs_data" -> 3
      [] a = "get_dataforseo_data" -> 2
      [] OTHER -> 1

\* the fields the k-th request of an adapter fills in (140; 165, 185, 205;
\* 274-275, 299; 310)
RequestFields(a, k) ==
    CASE a = "get_ahrefs_data" ->
             (IF k = 1 THEN {"dr"}
              ELSE IF k = 2 THEN {"refdomains"} ELSE {"traffic"})
      [] a = "get_dataforseo_data" ->
             (IF k = 1 THEN {"referring_domains", "rank"} ELSE {"traffic"})
      [] OTHER -> {"value"}

\* How a request can end: "ok" is a 200 response whose payload carries the
\* value; "empty" a 200 response whose payload is of the expected form
\* without the value (136-140, the defaults of the .get calls); "malformed"
\* a 200 response whose body is no JSON or not of the expected form
\* (response.json(), a subscript or a .get raises); "non200" any other
\* status; "error" a transport error or the request's own timeout
\* (session.get raises).  check_https reads no payload.
RequestOutcomes(a) ==
    IF a = "check_https" THEN {"ok", "non200", "error"}
    ELSE {"ok", "empty", "malformed", "non200", "error"}

\* the outcomes that are failures of the network call
Failure(out) == out \in {"malformed", "non200", "error"}

\* an exception is raised inside the try block of the request
Raises(out) == out \in {"malformed", "error"}

\* a handler for the HTTP client's errors only
CaughtClientError(out) == out = "error"

\* 141, 166, 186, 206, 276, 300, 311: `except Exception` catches whatever
\* the request or the handling of its payload raised
Caught(out) == TRUE

\* 310: a 200 response; 140, 165, 185, 205, 274-275, 299: the value found
ObtainedValue(a) == IF a = "check_https" THEN "Yes" ELSE "v"

\* 114-115, 147-148, 216-217: if not api_key; 222-226: the key does not
\* split in two; 240-241: the domain fails the format check
EarlyReturn(a, key, u) ==
    \/ a # "check_https" /\ ~Truthy(key)
    \/ a = "get_dataforseo_data" /\ ~SplitsInTwo(key)
    \/ a = "get_dataforseo_data" /\ ~DomainFormatOk(u)

\* what an adapter's step leaves alone
AdapterFrame ==
    /\ UNCHANGED <<adapter, api_key, aurl>>
    /\ UNCHANGED limVars
    /\ UNCHANGED rlVars
    /\ UNCHANGED jobVars
    /\ UNCHANGED urlVars
    /\ UNCHANGED mainVars
    /\ UNCHANGED persistVars
    /\ UNCHANGED retainVars
    /\ UNCHANGED exportVars

\* the adapter is entered: it returns its sentinel record at once, or sets
\* up its local results (151, 219) and goes on to its first request
A_Start ==
    /\ apc = "start"
    /\ aret' = AllSentinel(adapter)
    /\ apc' = IF EarlyReturn(adapter, api_key, aurl)
              THEN "returned" ELSE "request"
    /\ UNCHANGED aouts
    /\ AdapterFrame

\* one request, through the source's limiter, with its outcome: the value
\* is stored, or the request's fields keep the sentinel; an exception no
\* handler catches leaves the adapter
A_Request(out) ==
    /\ apc = "request"
    /\ out \in RequestOutcomes(adapter)
    /\ aouts' = Append(aouts, out)
    /\ IF Raises(out) /\ ~Caught(out)
       THEN /\ apc' = "raised"
            /\ UNCHANGED aret
       ELSE /\ aret' = IF out = "ok"
                       THEN [f \in AdapterFields(adapter) |->
                               IF f \in RequestFields(adapter, Len(aouts) + 1)
                               THEN ObtainedValue(adapter) ELSE aret[f]]
                       ELSE aret
            /\ apc' = IF Len(aouts) + 1 = Requests(adapter)
                      THEN "returned" ELSE "request"
    /\ AdapterFrame

(***************************************************************************)
(* The worker process over its restarts (main 630-683) and download_result *)
(* (app.py 147-181)                                                        *)
(***************************************************************************)
MaxMainUrls == 1     \* a job submitted in SpecMain has 0..MaxMainUrls URLs

\* app.py 147-181: the status download_result answers with for job j
DownloadResponse(j) ==
    IF ~Exists(artifact[j]) THEN 404
    ELSE IF ~Exists(status[j]) THEN 200
    ELSE IF ~IsJson(status[j]) THEN 500
    ELSE IF status[j].status # "completed" THEN 400
    ELSE 200

\* a cleanup that removes the records of unfinished jobs
IsUnfinished(j) == IsJson(status[j]) /\ status[j].status = "processing"

\* main, 646: if not os.path.exists(<job_id>.json)
IsOrphan(j) == ~Exists(descr[j])

\* what the steps of main outside process_job leave alone
MainFrame ==
    /\ UNCHANGED <<wjob, wn, results, raised, updates>>
    /\ UNCHANGED frontVars
    /\ UNCHANGED notJobVars
    /\ UNCHANGED urlVars
    /\ UNCHANGED persistVars
    /\ UNCHANGED adapterVars
    /\ UNCHANGED retainVars
    /\ UNCHANGED exportVars

\* the worker process ends wherever it is (signal_handler 635-637 calls
\* sys.exit, or the process is killed) and is started again (718-720): its
\* locals are lost, the files stay as they are
M_Restart ==
    /\ wpc' = "startup"
    /\ wtodo' = {}
    /\ wjob' = NoJob
    /\ wn' = 0
    /\ results' = << >>
    /\ raised' = FALSE
    /\ updates' = << >>
    /\ wstart' = {}
    /\ wloaded' = 0
    /\ UNCHANGED <<stale, cleaned>>
    /\ UNCHANGED fileVars
    /\ UNCHANGED frontVars
    /\ UNCHANGED notJobVars
    /\ UNCHANGED urlVars
    /\ UNCHANGED persistVars
    /\ UNCHANGED adapterVars
    /\ UNCHANGED retainVars
    /\ UNCHANGED exportVars

\* main, 643-644: os.listdir(JOBS_DIR), the names ending in .status
M_ListStatus ==
    /\ wpc = "startup"
    /\ wpc' = "cleanup"
    /\ wstart' = {j \in JobIds : Exists(status[j])}
    /\ stale' = {j \in JobIds : Exists(status[j]) /\ ~Exists(descr[j])}
    /\ cleaned' = {}
    /\ UNCHANGED <<wloaded, wtodo>>
    /\ UNCHANGED fileVars
    /\ MainFrame

\* main, 645-647: the next name of that listing; the status record is
\* removed when its descriptor does not exist
M_Cleanup(j) ==
    /\ wpc = "cleanup"
    /\ j \in wstart
    /\ wstart' = wstart \ {j}
    /\ IF IsOrphan(j)
       THEN /\ status' = [status EXCEPT ![j] = NoFile]
            /\ cleaned' = cleaned \cup {j}
       ELSE UNCHANGED <<status, cleaned>>
    /\ UNCHANGED <<descr, artifact, quarantined, submitted, maxProgress>>
    /\ UNCHANGED <<stale, wloaded, wpc, wtodo>>
    /\ MainFrame

\* main, 649-651: the listing is exhausted, the main loop is entered
M_MainLoop ==
    /\ wpc = "cleanup"
    /\ wstart = {}
    /\ wpc' = "scan"
    /\ UNCHANGED <<wstart, stale, cleaned, wloaded, wtodo>>
    /\ UNCHANGED fileVars
    /\ MainFrame

\* main, 661, counting from here the jobs handed to process_job
M_List ==
    /\ ListJobs
    /\ wloaded' = 0
    /\ UNCHANGED <<wstart, stale, cleaned>>
    /\ UNCHANGED persistVars
    /\ UNCHANGED adapterVars
    /\ UNCHANGED retainVars
    /\ UNCHANGED exportVars

\* main, 672-677
M_Load(j) ==
    /\ LoadJob(j)
    /\ wloaded' = wloaded + 1
    /\ UNCHANGED <<wstart, stale, cleaned>>
    /\ UNCHANGED persistVars
    /\ UNCHANGED adapterVars
    /\ UNCHANGED retainVars
    /\ UNCHANGED exportVars

\* main, 672-677 and 682-683, process_job 503: the file holds JSON that is
\* no object; job_data.get raises before the status record is created, main
\* logs the exception and the for loop of 661 goes on
M_LoadUnusable(j) ==
    /\ wpc = "iter"
    /\ j \in wtodo
    /\ ~Exists(status[j])
    /\ descr[j] = NotAJob
    /\ wtodo' = wtodo \ {j}
    /\ UNCHANGED wpc
    /\ UNCHANGED mainVars
    /\ UNCHANGED fileVars
    /\ MainFrame

\* a file named <j>.json that submit_job did not write appears in JOBS_DIR:
\* text that is not JSON, or JSON that is no job object
M_Foreign(j, f) ==
    /\ j \in ForeignIds
    /\ ~Exists(descr[j])
    /\ j \notin quarantined
    /\ f \in {Garbled, NotAJob}
    /\ descr' = [descr EXCEPT ![j] = f]
    /\ UNCHANGED <<status, artifact, quarantined, submitted, maxProgress>>
    /\ UNCHANGED wtodo
    /\ UNCHANGED wpc
    /\ UNCHANGED mainVars
    /\ MainFrame

(***************************************************************************)
(* Persisting the artifact: retry_on_os_error (95-109) around              *)
(* export_to_ods (314-361) and the write of the result file (594-596)      *)
(***************************************************************************)
\* export_to_ods is decorated with retry_on_os_error(max_attempts=3, delay=1)
max_attempts == 3

\* the most failures of the file system behind RESULTS_DIR a run starts with
MaxOsErrors == 2

\* what the steps of process_job between the URL loop and the completed
\* record leave alone
PersistFrame ==
    /\ UNCHANGED <<wtodo, wjob, wn, results, updates>>
    /\ UNCHANGED frontVars
    /\ UNCHANGED notJobVars
    /\ UNCHANGED urlVars
    /\ UNCHANGED mainVars
    /\ UNCHANGED adapterVars
    /\ UNCHANGED retainVars
    /\ UNCHANGED exportVars

\* wrapper, 98-100: the call of export_to_ods returns the spreadsheet, built
\* in a BytesIO (358-361); process_job goes on at 594
P_Export ==
    /\ wpc = "export"
    /\ wpc' = "save"
    /\ attempt' = 0
    /\ UNCHANGED <<raised, oserrors>>
    /\ UNCHANGED fileVars
    /\ PersistFrame

\* wrapper, 101-105: the call raises OSError and this is not the last
\* attempt; the wrapper sleeps and calls again
P_ExportRetry ==
    /\ wpc = "export"
    /\ attempt # max_attempts - 1
    /\ attempt' = attempt + 1
    /\ UNCHANGED <<wpc, raised, oserrors>>
    /\ UNCHANGED fileVars
    /\ PersistFrame

\* wrapper, 101-103, and process_job 619-620: the call raises OSError on the
\* last attempt, the wrapper raises it again
P_ExportGiveUp ==
    /\ wpc = "export"
    /\ attempt = max_attempts - 1
    /\ attempt' = 0
    /\ wpc' = "err_open"
    /\ raised' = TRUE
    /\ UNCHANGED oserrors
    /\ UNCHANGED fileVars
    /\ PersistFrame

\* process_job, 594-601: the result file is opened and written
P_Save ==
    /\ wpc = "save"
    /\ oserrors = 0
    /\ wpc' = "done_open"
    /\ artifact' = [artifact EXCEPT ![wjob] = Artifact(results)]
    /\ UNCHANGED <<descr, status, quarantined, submitted, maxProgress>>
    /\ UNCHANGED <<raised, attempt, oserrors>>
    /\ PersistFrame

\* process_job, 595-596 and 619-620: open() or write() raises OSError; the
\* statement is not inside any retry, the exception ends the try block
P_SaveFail ==
    /\ wpc = "save"
    /\ oserrors > 0
    /\ oserrors' = oserrors - 1
    /\ wpc' = "err_open"
    /\ raised' = TRUE
    /\ UNCHANGED attempt
    /\ UNCHANGED fileVars
    /\ PersistFrame

(***************************************************************************)
(* The retention pass of main, background_worker.py 685-709                *)
(***************************************************************************)
\* 698: status_data.get('status') in ['completed', 'error', 'cancelled']
IsTerminal(f) == IsJson(f) /\ f.status \in {"completed", "error", "cancelled"}

\* 700-704: for f in [result_file, job_file, file_path]
RetainedFiles == <<"ods", "json", "status">>

\* the file of job j the loop of 704 is at
FileOf(name, j) ==
    CASE name = "ods" -> artifact[j]
      [] name = "json" -> descr[j]
      [] name = "status" -> status[j]

\* what the steps of the retention pass leave alone
RetainFrame ==
    /\ UNCHANGED <<wtodo, wjob, wn, results, raised, updates>>
    /\ UNCHANGED <<quarantined, submitted, maxProgress>>
    /\ UNCHANGED frontVars
    /\ UNCHANGED notJobVars
    /\ UNCHANGED urlVars
    /\ UNCHANGED mainVars
    /\ UNCHANGED persistVars
    /\ UNCHANGED adapterVars
    /\ UNCHANGED exportVars

\* 690, 693: a status file nobody is writing has not been modified for more
\* than 24 hours (os.path.getmtime); the pass reads the time once, at 686
R_Age(j) ==
    /\ wpc \notin {"retain", "reap"}
    /\ Exists(status[j])
    /\ j \notin old
    /\ wjob # j
    /\ cjob # j
    /\ old' = old \cup {j}
    /\ UNCHANGED <<rlist, rjob, rfiles, rchecked>>
    /\ UNCHANGED <<wpc, descr, status, artifact>>
    /\ RetainFrame

\* 685-688: the discovery loop is through; os.listdir(JOBS_DIR), the names
\* ending in .status
R_List ==
    /\ wpc = "iter"
    /\ wtodo = {}
    /\ wpc' = "retain"
    /\ rlist' = {j \in JobIds : Exists(status[j])}
    /\ UNCHANGED <<old, rjob, rfiles, rchecked>>
    /\ UNCHANGED <<descr, status, artifact>>
    /\ RetainFrame

\* 689-698 and 708-709: the next name; the file is not older than 24 hours,
\* or json.load raises on it (logged), or its status is not terminal
R_Keep(j) ==
    /\ wpc = "retain"
    /\ j \in rlist
    /\ ~(j \in old /\ IsTerminal(status[j]))
    /\ rlist' = rlist \ {j}
    /\ UNCHANGED <<old, rjob, rfiles, rchecked>>
    /\ UNCHANGED <<wpc, descr, status, artifact>>
    /\ RetainFrame

\* 689-704: the next name; the file is older than 24 hours and its status
\* is terminal: the loop over the job's three files is entered
R_Reap(j) ==
    /\ wpc = "retain"
    /\ j \in rlist
    /\ j \in old
    /\ IsTerminal(status[j])
    /\ rlist' = rlist \ {j}
    /\ rjob' = j
    /\ rfiles' = RetainedFiles
    /\ rchecked' = FALSE
    /\ wpc' = "reap"
    /\ UNCHANGED old
    /\ UNCHANGED <<descr, status, artifact>>
    /\ RetainFrame

\* 705: if os.path.exists(f); a file that does not exist is passed over
R_Exists ==
    /\ wpc = "reap"
    /\ ~rchecked
    /\ IF Exists(FileOf(Head(rfiles), rjob))
       THEN /\ rchecked' = TRUE
            /\ UNCHANGED <<wpc, rjob, rfiles>>
       ELSE /\ rchecked' = FALSE
            /\ rfiles' = Tail(rfiles)
            /\ wpc' = IF Tail(rfiles) = << >> THEN "retain" ELSE "reap"
            /\ rjob' = IF Tail(rfiles) = << >> THEN NoJob ELSE rjob
    /\ UNCHANGED <<old, rlist>>
    /\ UNCHANGED <<descr, status, artifact>>
    /\ RetainFrame

\* 706: os.remove(f)
R_Remove ==
    /\ wpc = "reap"
    /\ rchecked
    /\ Exists(FileOf(Head(rfiles), rjob))
    /\ artifact' = IF Head(rfiles) = "ods"
                   THEN [artifact EXCEPT ![rjob] = NoFile] ELSE artifact
    /\ descr' = IF Head(rfiles) = "json"
                THEN [descr EXCEPT ![rjob] = NoFile] ELSE descr
    /\ status' = IF Head(rfiles) = "status"
                 THEN [status EXCEPT ![rjob] = NoFile] ELSE status
    /\ old' = IF Head(rfiles) = "status" THEN old \ {rjob} ELSE old
    /\ rchecked' = FALSE
    /\ rfiles' = Tail(rfiles)
    /\ wpc' = IF Tail(rfiles) = << >> THEN "retain" ELSE "reap"
    /\ rjob' = IF Tail(rfiles) = << >> THEN NoJob ELSE rjob
    /\ UNCHANGED rlist
    /\ RetainFrame

\* 706 and 708-709: the file was removed by somebody else since line 705
\* (cancel_job, app.py 194-195); os.remove raises FileNotFoundError, the
\* handler of 708 logs it and the loop of 704 is left
R_RemoveGone ==
    /\ wpc = "reap"
    /\ rchecked
    /\ ~Exists(FileOf(Head(rfiles), rjob))
    /\ rchecked' = FALSE
    /\ rfiles' = << >>
    /\ rjob' = NoJob
    /\ wpc' = "retain"
    /\ UNCHANGED <<old, rlist>>
    /\ UNCHANGED <<descr, status, artifact>>
    /\ RetainFrame

\* 711-712: the listing is exhausted; the loop sleeps and starts over
R_Sleep ==
    /\ wpc = "retain"
    /\ rlist = {}
    /\ wpc' = "scan"
    /\ UNCHANGED retainVars
    /\ UNCHANGED exportVars
    /\ UNCHANGED <<descr, status, artifact>>
    /\ RetainFrame

(***************************************************************************)
(* export_to_ods, background_worker.py 314-361                             *)
(***************************************************************************)
NoCall == [results |-> << >>, use_majestic |-> FALSE, use_ahrefs |-> FALSE,
           use_dataforseo |-> FALSE]

\* the values a record holds: an int (response.status) or a str
IntValue(n) == [type |-> "int", n |-> n]
StrValue(t) == [type |-> "str", s |-> t]

\* 352: str(value)
str(v) == IF v.type = "int" THEN ToString(v.n) ELSE v.s

\* a header list that follows the key order of the records (410-414)
HeadersInRecordOrder(use_m, use_a, use_d) ==
    <<"URL", "Status Code", "HTTPS">>
    \o (IF use_m THEN <<"Majestic Topics">> ELSE << >>)
    \o (IF use_a THEN <<"Ahrefs Domain Rating", "Ahrefs Referring Domains",
                        "Ahrefs Traffic">> ELSE << >>)
    \o (IF use_d THEN <<"DataForSEO Referring Domains", "DataForSEO Traffic",
                        "DataForSEO Rank">> ELSE << >>)

\* 320-327
Headers(use_m, use_a, use_d) ==
    <<"URL", "Status Code">>
    \o (IF use_m THEN <<"Majestic Topics">> ELSE << >>)
    \o (IF use_a THEN <<"Ahrefs Referring Domains", "Ahrefs Traffic",
                        "Ahrefs Domain Rating">> ELSE << >>)
    \o (IF use_d THEN <<"DataForSEO Referring Domains", "DataForSEO Traffic",
                        "DataForSEO Rank">> ELSE << >>)
    \o <<"HTTPS">>

\* 338-349
key_map(header) ==
    CASE header = "URL" -> "url"
      [] header = "Status Code" -> "status_code"
      [] header = "Majestic Topics" -> "majestic_topics"
      [] header = "Ahrefs Referring Domains" -> "ahrefs_refdomains"
      [] header = "Ahrefs Traffic" -> "ahrefs_traffic"
      [] header = "Ahrefs Domain Rating" -> "ahrefs_dr"
      [] header = "DataForSEO Referring Domains" ->
             "dataforseo_referring_domains"
      [] header = "DataForSEO Traffic" -> "dataforseo_traffic"
      [] header = "DataForSEO Rank" -> "dataforseo_rank"
      [] header = "HTTPS" -> "secure"

\* 350-352: the text of one cell, str(result.get(key_map[header], "N/A"))
Cell(rec, header) ==
    IF key_map(header) \in DOMAIN rec THEN str(rec[key_map(header)]) ELSE NA

\* 336-354: the row of one record
Row(rec, hs) == [k \in 1..Len(hs) |-> Cell(rec, hs[k])]

\* records process_job hands over: a normal record of a job with Ahrefs
\* and DataForSEO enabled, a normal record of a job with Majestic enabled,
\* a Timeout record of a job with no source field
SampleRecords ==
    { [url |-> StrValue("http://a.com"), status_code |-> IntValue(200),
       secure |-> StrValue("Yes"),
       ahrefs_dr |-> IntValue(71), ahrefs_refdomains |-> IntValue(5),
       ahrefs_traffic |-> StrValue(NA),
       dataforseo_referring_domains |-> IntValue(9),
       dataforseo_traffic |-> IntValue(0), dataforseo_rank |-> IntValue(3)],
      [url |-> StrValue("http://b.org"), status_code |-> IntValue(404),
       secure |-> StrValue("No"), majestic_topics |-> StrValue("Arts")],
      [url |-> StrValue("c.net/x"), status_code |-> StrValue("Timeout"),
       secure |-> StrValue(NA)] }

\* the longest result list of SpecExport
MaxRows == 2

ResultLists == UNION {[1..n -> SampleRecords] : n \in 0..MaxRows}

ExportFrame ==
    /\ UNCHANGED jobVars
    /\ UNCHANGED notJobVars
    /\ UNCHANGED urlVars
    /\ UNCHANGED mainVars
    /\ UNCHANGED persistVars
    /\ UNCHANGED adapterVars
    /\ UNCHANGED retainVars

\* 317-333: the header list and the header row
X_Headers ==
    /\ xpc = "start"
    /\ headers' = Headers(export_args.use_majestic, export_args.use_ahrefs,
                          export_args.use_dataforseo)
    /\ table' = <<headers'>>
    /\ xpc' = "rows"
    /\ UNCHANGED export_args
    /\ ExportFrame

\* 335-355: the row of the next record
X_Row ==
    /\ xpc = "rows"
    /\ Len(table) - 1 < Len(export_args.results)
    /\ table' = Append(table, Row(export_args.results[Len(table)], headers))
    /\ UNCHANGED <<export_args, headers, xpc>>
    /\ ExportFrame

\* 357-361: the document is saved to a BytesIO and returned
X_Return ==
    /\ xpc = "rows"
    /\ Len(table) - 1 = Len(export_args.results)
    /\ xpc' = "returned"
    /\ UNCHANGED <<export_args, headers, table>>
    /\ ExportFrame

\* the state of what a specification does not exercise
IdleMain ==
    /\ wstart = {}
    /\ stale = {}
    /\ cleaned = {}
    /\ wloaded = 0

IdlePersist ==
    /\ attempt = 0
    /\ oserrors = 0

IdleAdapter ==
    /\ adapter = "none"
    /\ api_key = None
    /\ aurl = ""
    /\ apc = "idle"
    /\ aouts = << >>
    /\ aret = NoRecord

IdleRetain ==
    /\ old = {}
    /\ rlist = {}
    /\ rjob = NoJob
    /\ rfiles = << >>
    /\ rchecked = FALSE

IdleExport ==
    /\ export_args = NoCall
    /\ headers = << >>
    /\ table = << >>
    /\ xpc = "idle"

IdleExt ==
    IdleMain /\ IdlePersist /\ IdleAdapter /\ IdleRetain /\ IdleExport

InitRL == InitLimiterRL /\ InitTasks /\ InitJobs /\ IdleUrl /\ IdleExt

NextRL ==
    \/ \E t \in Tasks : RLCall(t)
    \/ \E t \in Tasks : RLEnter(t)
    \/ \E t \in Tasks : RLWake(t)
    \/ Tick

SpecRL == InitRL /\ [][NextRL]_vars

\* callers that come back for further admissions.  The event loop runs
\* every coroutine that is ready (a sleeper whose time has come), time goes
\* on, and asyncio.Lock hands the lock to its waiters in the order they
\* queued (49), so no waiter is passed over for ever.
NextRLFair ==
    \/ \E t \in Tasks : RLCall(t)
    \/ \E t \in Tasks : RLAgain(t)
    \/ \E t \in Tasks : RLEnter(t)
    \/ \E t \in Tasks : RLWake(t)
    \/ Elapse

SpecRLFair ==
    /\ InitRL
    /\ [][NextRLFair]_vars
    /\ WF_vars(Elapse)
    /\ \A t \in Tasks : WF_vars(RLWake(t))
    /\ \A t \in Tasks : SF_vars(RLEnter(t))

Init == IdleLimiter /\ InitTasks /\ InitJobs /\ IdleUrl /\ IdleExt

Next ==
    \/ \E j \in JobIds : SubmitOpen(j)
    \/ \E j \in JobIds : \E n \in 0..MaxUrls : SubmitFlush(j, n)
    \/ \E j \in JobIds : CancelRemove(j)
    \/ CancelRead
    \/ CancelOpen
    \/ CancelFlush
    \/ W_List
    \/ \E j \in JobIds : W_Skip(j)
    \/ \E j \in JobIds : W_LoadMissing(j)
    \/ \E j \in JobIds : W_LoadInvalid(j)
    \/ \E j \in JobIds : W_Load(j)
    \/ W_ClaimOpen
    \/ W_ClaimFlush
    \/ W_Session
    \/ \E code \in StatusCodes : W_Url(code)
    \/ W_ProgressOpen
    \/ W_ProgressFlush
    \/ W_Export
    \/ W_Save
    \/ W_DoneOpen
    \/ W_DoneFlush
    \/ W_Raise
    \/ W_ErrorOpen
    \/ W_ErrorFlush
    \/ W_ErrorRaise
    \/ W_Return
    \/ W_Sleep

Spec == Init /\ [][Next]_vars

InitURL == InitUrl /\ InitTasks /\ InitJobs /\ IdleExt

NextURL ==
    \/ U_Begin
    \/ U_BeginRaise
    \/ U_Enter
    \/ U_Wake
    \/ \E ok \in BOOLEAN : U_CallDone(ok)
    \/ U_Build
    \/ U_BuildRaise
    \/ U_Timeout

SpecURL == InitURL /\ [][NextURL]_vars

\* an adapter is called with any key and URL
InitAdapter ==
    /\ IdleLimiter /\ InitTasks /\ InitJobs /\ IdleUrl
    /\ IdleMain /\ IdlePersist /\ IdleRetain /\ IdleExport
    /\ adapter \in Adapters
    /\ api_key \in AdapterKeys(adapter)
    /\ aurl \in AdapterUrls
    /\ apc = "start"
    /\ aouts = << >>
    /\ aret = NoRecord

NextAdapter ==
    \/ A_Start
    \/ \E out \in {"ok", "empty", "malformed", "non200", "error"} :
           A_Request(out)

SpecAdapter == InitAdapter /\ [][NextAdapter]_vars

\* the worker was started on empty directories and has entered its loop
InitMain == Init

NextMain ==
    \/ \E j \in JobIds : SubmitOpen(j)
    \/ \E j \in JobIds : \E n \in 0..MaxMainUrls : SubmitFlush(j, n)
    \/ \E j \in JobIds : CancelRemove(j)
    \/ CancelRead
    \/ CancelOpen
    \/ CancelFlush
    \/ M_Restart
    \/ M_ListStatus
    \/ \E j \in JobIds : M_Cleanup(j)
    \/ M_MainLoop
    \/ W_List
    \/ \E j \in JobIds : W_Skip(j)
    \/ \E j \in JobIds : W_LoadMissing(j)
    \/ \E j \in JobIds : W_LoadInvalid(j)
    \/ \E j \in JobIds : W_Load(j)
    \/ W_ClaimOpen
    \/ W_ClaimFlush
    \/ W_Session
    \/ \E code \in StatusCodes : W_Url(code)
    \/ W_ProgressOpen
    \/ W_ProgressFlush
    \/ W_Export
    \/ W_Save
    \/ W_DoneOpen
    \/ W_DoneFlush
    \/ W_Raise
    \/ W_ErrorOpen
    \/ W_ErrorFlush
    \/ W_ErrorRaise
    \/ W_Return
    \/ W_Sleep

SpecMain == InitMain /\ [][NextMain]_vars

\* the discovery loop of main (661-683) with the files other programs put
\* into JOBS_DIR, no request cancelled and local I/O succeeding
InitQueue == Init

NextQueue ==
    \/ \E j \in JobIds : SubmitOpen(j)
    \/ \E j \in JobIds : \E n \in 0..MaxUrls : SubmitFlush(j, n)
    \/ \E j \in JobIds : \E f \in {Garbled, NotAJob} : M_Foreign(j, f)
    \/ M_List
    \/ \E j \in JobIds : W_Skip(j)
    \/ \E j \in JobIds : W_LoadInvalid(j)
    \/ \E j \in JobIds : M_LoadUnusable(j)
    \/ \E j \in JobIds : M_Load(j)
    \/ W_ClaimOpen
    \/ W_ClaimFlush
    \/ W_Session
    \/ \E code \in StatusCodes : W_Url(code)
    \/ W_ProgressOpen
    \/ W_ProgressFlush
    \/ W_Export
    \/ W_Save
    \/ W_DoneOpen
    \/ W_DoneFlush
    \/ W_Return
    \/ W_Sleep

SpecQueue == InitQueue /\ [][NextQueue]_vars


\* process_job on a file system whose next writes to RESULTS_DIR fail, no
\* request cancelled
InitPersist ==
    /\ IdleLimiter /\ InitTasks /\ InitJobs /\ IdleUrl
    /\ IdleMain /\ IdleAdapter /\ IdleRetain /\ IdleExport
    /\ attempt = 0
    /\ oserrors \in 0..MaxOsErrors

NextPersist ==
    \/ \E j \in JobIds : SubmitOpen(j)
    \/ \E j \in JobIds : \E n \in 0..MaxUrls : SubmitFlush(j, n)
    \/ W_List
    \/ \E j \in JobIds : W_Skip(j)
    \/ \E j \in JobIds : W_LoadInvalid(j)
    \/ \E j \in JobIds : W_Load(j)
    \/ W_ClaimOpen
    \/ W_ClaimFlush
    \/ W_Session
    \/ \E code \in StatusCodes : W_Url(code)
    \/ W_ProgressOpen
    \/ W_ProgressFlush
    \/ P_Export
    \/ P_ExportRetry
    \/ P_ExportGiveUp
    \/ P_Save
    \/ P_SaveFail
    \/ W_DoneOpen
    \/ W_DoneFlush
    \/ W_ErrorOpen
    \/ W_ErrorFlush
    \/ W_Return
    \/ W_Sleep

SpecPersist == InitPersist /\ [][NextPersist]_vars

\* the main loop with its retention pass, over more than a day of operation
InitRetain == Init

NextRetain ==
    \/ \E j \in JobIds : SubmitOpen(j)
    \/ \E j \in JobIds : \E n \in 0..MaxMainUrls : SubmitFlush(j, n)
    \/ \E j \in JobIds : CancelRemove(j)
    \/ CancelRead
    \/ CancelOpen
    \/ CancelFlush
    \/ W_List
    \/ \E j \in JobIds : W_Skip(j)
    \/ \E j \in JobIds : W_LoadMissing(j)
    \/ \E j \in JobIds : W_LoadInvalid(j)
    \/ \E j \in JobIds : W_Load(j)
    \/ W_ClaimOpen
    \/ W_ClaimFlush
    \/ W_Session
    \/ \E code \in StatusCodes : W_Url(code)
    \/ W_ProgressOpen
    \/ W_ProgressFlush
    \/ W_Export
    \/ W_Save
    \/ W_DoneOpen
    \/ W_DoneFlush
    \/ W_Return
    \/ \E j \in JobIds : R_Age(j)
    \/ R_List
    \/ \E j \in JobIds : R_Keep(j)
    \/ \E j \in JobIds : R_Reap(j)
    \/ R_Exists
    \/ R_Remove
    \/ R_RemoveGone
    \/ R_Sleep

SpecRetain == InitRetain /\ [][NextRetain]_vars

\* export_to_ods is called with any flags and any list of records
InitExport ==
    /\ IdleLimiter /\ InitTasks /\ InitJobs /\ IdleUrl
    /\ IdleMain /\ IdlePersist /\ IdleAdapter /\ IdleRetain
    /\ export_args \in [results : ResultLists, use_majestic : BOOLEAN,
                        use_ahrefs : BOOLEAN, use_dataforseo : BOOLEAN]
    /\ headers = << >>
    /\ table = << >>
    /\ xpc = "start"

NextExport ==
    \/ X_Headers
    \/ X_Row
    \/ X_Return

SpecExport == InitExport /\ [][NextExport]_vars

\* process_job from its first line to its return, with the enrichment of
\* each URL in full: main has just loaded the descriptor of job "a"
\* (672-677), any descriptor submit_job accepts; no request is cancelled
\* and local I/O succeeds
TheJob == JobSeq[1]

InitJobURL ==
    /\ InitUrl /\ InitTasks /\ IdleExt
    /\ descr = [j \in JobIds |->
                   IF j = TheJob THEN Descriptor(Len(job_data.urls))
                   ELSE NoFile]
    /\ status = [j \in JobIds |-> NoFile]
    /\ artifact = [j \in JobIds |-> NoFile]
    /\ quarantined = {}
    /\ submitted = {TheJob}
    /\ maxProgress = [j \in JobIds |-> 0]
    /\ wpc = "claim_open"
    /\ wtodo = {}
    /\ wjob = TheJob
    /\ wn = Len(job_data.urls)
    /\ results = << >>
    /\ raised = FALSE
    /\ updates = << >>
    /\ cjob = NoJob
    /\ cpc = "idle"
    /\ cdata = NoFile

\* the URL loop of 528-580: the enrichment of a URL starts when the loop is
\* at that URL, and its record is appended when the enrichment is over
NextJobURL ==
    \/ W_ClaimOpen
    \/ W_ClaimFlush
    \/ W_Session
    \/ wpc = "url" /\ Len(results) = ui /\ U_Begin
    \/ wpc = "url" /\ Len(results) = ui /\ U_BeginRaise
    \/ U_Enter
    \/ U_Wake
    \/ \E ok \in BOOLEAN : U_CallDone(ok)
    \/ U_Build
    \/ U_BuildRaise
    \/ U_Timeout
    \/ upc = "loop" /\ Len(results) < ui /\ W_Url(result["status_code"])
    \/ W_ProgressOpen
    \/ W_ProgressFlush
    \/ W_Export
    \/ W_Save
    \/ W_DoneOpen
    \/ W_DoneFlush

\* the event loop runs the one coroutine of the worker whenever it can go
\* on, and time passes: a pending request or sleep settles or is cut short
SpecJobURL == InitJobURL /\ [][NextJobURL]_vars /\ WF_vars(NextJobURL)


(***************************************************************************)
(* C1: with policy (K calls per W), the number of callers that return      *)
(* from wait_if_needed inside any time interval of length W is at most K.  *)
(* The interval is taken half open, [s, s+W), which is the window line 52  *)
(* retains.                                                                *)
(***************************************************************************)
ReturnedIn(s, W) ==
    {t \in Tasks : tret[t] # << >> /\ s <= tret[t][1] /\ tret[t][1] < s + W}

C1_AtMostKPerWindow ==
    \A s \in 0..MaxTime :
        Cardinality(ReturnedIn(s, unit_time[RL])) <= calls_per_unit[RL]

(***************************************************************************)
(* Claims about the job life cycle (Spec)                                  *)
(***************************************************************************)
ShowsStatus(f, st) == IsJson(f) /\ f.status = st

(***************************************************************************)
(* C2: once cancel_job has recorded `cancelled` for a job that was being   *)
(* processed, the worker processes no further URL of it, the status record *)
(* stays `cancelled` with the progress it had, and no artifact is written  *)
(* for the job.                                                            *)
(***************************************************************************)
C2_CancelStopsJob ==
    [][\A j \in JobIds :
          ShowsStatus(status[j], "cancelled") =>
              /\ status'[j] = status[j]
              /\ artifact'[j] = artifact[j]
              /\ (wjob = j /\ wjob' = j => results' = results)]_vars

(***************************************************************************)
(* C3: once a job's status record shows `completed`, no later step (in     *)
(* particular no step of a cancel_job request) changes it.                 *)
(***************************************************************************)
C3_CompletedIsFinal ==
    [][\A j \in JobIds :
          ShowsStatus(status[j], "completed") => status'[j] = status[j]]_vars

(***************************************************************************)
(* C4: a job cancelled while queued vanishes: no status record is ever     *)
(* written for it and none of its URLs is processed.  A submitted job      *)
(* whose descriptor is gone without having been quarantined, and that has  *)
(* no status record, is a job cancel_job removed while it was queued       *)
(* (nothing else removes a descriptor, and a status record, once created,  *)
(* is never removed within Spec).                                          *)
(***************************************************************************)
CancelledWhileQueued(j) ==
    /\ j \in submitted
    /\ j \notin quarantined
    /\ ~Exists(descr[j])
    /\ ~Exists(status[j])

C4_QueuedCancelVanishes ==
    [][\A j \in JobIds :
          CancelledWhileQueued(j) =>
              /\ ~Exists(status'[j])
              /\ (wjob' = j => Len(results') = 0)]_vars

(***************************************************************************)
(* C5: while a job's status record shows `processing`, only process_job    *)
(* changes the record (no step of the front end does), and the record      *)
(* never becomes empty or unparseable, so that a reader (job_status) never *)
(* fails on it.                                                            *)
(***************************************************************************)
C5_SingleWriterWholeRecords ==
    [][\A j \in JobIds :
          ShowsStatus(status[j], "processing") =>
              /\ (status'[j] # status[j] =>
                     wjob = j /\ UNCHANGED <<cjob, cpc, cdata>>)
              /\ JobStatusResponse(j).kind' # "error500"]_vars

(***************************************************************************)
(* C6: the progress a job's status record shows never decreases: whenever  *)
(* the record is readable, its progress is at least the highest progress   *)
(* any earlier content of the record showed.                               *)
(***************************************************************************)
C6_ProgressNeverDecreases ==
    \A j \in JobIds : IsJson(status[j]) => status[j].progress >= maxProgress[j]

(***************************************************************************)
(* C7 as stated: when process_job is over for a job with n URLs, it has    *)
(* written exactly n per-URL progress updates, with progress 1, 2, ..., n  *)
(* in that order, the last with progress equal to total.                   *)
(***************************************************************************)
InOrder(us) == \A k \in 1..Len(us) : us[k].progress = k

LoopEnded ==
    \/ wpc \in {"export", "save", "done_open", "done_flush"}
    \/ wpc = "returned" /\ ~raised

C8_TerminalAfterException ==
    [][(wpc # "returned" /\ wpc' = "returned" /\ raised') =>
          \/ status'[wjob'] = ErrorRecord(results', wn')
          \/ ShowsStatus(status'[wjob'], "completed")]_vars

(***************************************************************************)
(* C11: whatever the outcomes of the URLs (source failures, per-URL        *)
(* timeouts), when process_job returns for a job with n URLs without a     *)
(* local I/O failure, the status record it leaves shows `completed` with   *)
(* progress n, `results` holds exactly n records, the i-th being the one   *)
(* for the i-th URL of the descriptor's list, and the artifact holds those *)
(* n rows: no outcome of a URL aborts the job or skips a URL.              *)
(***************************************************************************)
C11_EveryUrlReported ==
    [][(wpc # "returned" /\ wpc' = "returned" /\ ~raised') =>
          /\ ShowsStatus(status'[wjob'], "completed")
          /\ status'[wjob'].progress = wn'
          /\ Len(results') = wn'
          /\ \A k \in 1..wn' : results'[k].url = k
          /\ artifact'[wjob'] = Artifact(results')]_vars

\* a two-URL job whose first URL timed out has run to completion
C11_Witness ==
    /\ wpc = "returned" /\ ~raised
    /\ wn = 2
    /\ Len(results) = 2
    /\ results[1].status_code = "Timeout"
    /\ results[2].status_code = "200"
    /\ ShowsStatus(status[wjob], "completed")
    /\ status[wjob].errors = 1
    /\ artifact[wjob] = Artifact(results)

(***************************************************************************)
(* C12: download_result serves the artifact of a job only when the job's   *)
(* status record shows `completed`: in every state in which no status      *)
(* record shows `completed` for the job (the record is absent, unreadable, *)
(* or shows processing, error or cancelled) the download is refused.       *)
(***************************************************************************)
C12_DownloadOnlyCompleted ==
    \A j \in JobIds :
        DownloadResponse(j) = 200 => ShowsStatus(status[j], "completed")

(***************************************************************************)
(* Claims about the source adapters (SpecAdapter)                          *)
(***************************************************************************)
\* the adapter has returned a record of its fixed shape
ReturnedShape == apc = "returned" /\ DOMAIN aret = AdapterFields(adapter)

(***************************************************************************)
(* C13 as stated: an adapter never raises, what it returns has its fixed   *)
(* shape, and when a request of it met a transport error, a non-200        *)
(* response or a malformed payload, or the credential is missing, it       *)
(* returns the record with every field "N/A" ("No" for the HTTPS probe).   *)
(***************************************************************************)
C13_AnyFailureAllSentinel ==
    /\ apc # "raised"
    /\ apc = "returned" =>
          /\ ReturnedShape
          /\ (\/ \E k \in 1..Len(aouts) : Failure(aouts[k])
              \/ adapter # "check_https" /\ ~Truthy(api_key))
             => aret = AllSentinel(adapter)

(***************************************************************************)
(* C13 amended: an adapter never raises and what it returns has its fixed  *)
(* shape; the fields of every request that did not deliver its value (a    *)
(* transport error, a non-200 response, a malformed or empty payload) are  *)
(* "N/A" ("No" for the HTTPS probe), and the whole record is when no       *)
(* request delivered a value, in particular when the credential is missing *)
(* or unusable and no request is sent.  A request that fails does not      *)
(* blank the fields another request of the same adapter obtained.          *)
(***************************************************************************)
C13_FailedRequestsDegrade ==
    /\ apc # "raised"
    /\ apc = "returned" =>
          /\ ReturnedShape
          /\ \A k \in 1..Len(aouts) :
                \A f \in RequestFields(adapter, k) :
                    aret[f] = IF aouts[k] = "ok"
                              THEN ObtainedValue(adapter) ELSE Sentinel(adapter)
          /\ (\A k \in 1..Len(aouts) : aouts[k] # "ok")
                => aret = AllSentinel(adapter)
          /\ (adapter # "check_https" /\ ~Truthy(api_key)) => aouts = << >>

\* get_dataforseo_data has returned after a malformed payload of its first
\* request and a value from its second
C13_Witness ==
    /\ adapter = "get_dataforseo_data"
    /\ apc = "returned"
    /\ aouts = <<"malformed", "ok">>
    /\ aret = [referring_domains |-> NA, traffic |-> "v", rank |-> NA]

(***************************************************************************)
(* Claims about one URL's enrichment (SpecURL)                             *)
(***************************************************************************)
\* process_url_with_timeout has just returned the Timeout record
TimedOut == upc = "loop" /\ upath = "timeout"

\* the fields of the sources the descriptor enables
EnabledFields ==
    (IF job_data.use_majestic THEN {"majestic_topics"} ELSE {})
    \cup (IF job_data.use_ahrefs
          THEN {"ahrefs_dr", "ahrefs_refdomains", "ahrefs_traffic"} ELSE {})
    \cup (IF job_data.use_dataforseo
          THEN {"dataforseo_referring_domains", "dataforseo_traffic",
                "dataforseo_rank"} ELSE {})

\* status code "Timeout" and every enabled-source field "N/A"
TimeoutShape ==
    /\ result["status_code"] = "Timeout"
    /\ EnabledFields \subseteq DOMAIN result
    /\ \A f \in EnabledFields : result[f] = NA

(***************************************************************************)
(* C9 as stated: when a URL is cut short at the deadline, the record has   *)
(* status code "Timeout" and every enabled-source field "N/A", no limiter  *)
(* lock stays held, and no limiter's call history differs from what it was *)
(* when the URL was started.                                               *)
(***************************************************************************)
C9_TimeoutLeavesNoTrace ==
    TimedOut =>
        /\ TimeoutShape
        /\ \A l \in Limiters : lock[l] = Free
        /\ calls = ustartcalls

(***************************************************************************)
(* C9 amended: when a URL is cut short at the deadline, the record has     *)
(* status code "Timeout" and every enabled-source field "N/A", no limiter  *)
(* lock stays held, and the await that was cut short (a request, or a      *)
(* rate-limiter wait) has altered no limiter's call history: each history  *)
(* is what it was when that await began.  The calls the URL was admitted   *)
(* for before the deadline stay recorded.                                  *)
(***************************************************************************)
C9_CutShortAwaitLeavesNoTrace ==
    TimedOut =>
        /\ TimeoutShape
        /\ \A l \in Limiters : lock[l] = Free
        /\ calls = ucalls

\* a URL was cut short while it slept inside wait_if_needed, holding the
\* Ahrefs lock, after Majestic had admitted and recorded a call for it
C9_Witness ==
    /\ TimedOut
    /\ uphase = "enter"
    /\ unow = ustart
    /\ ud > URL_TIMEOUT
    /\ calls["majestic"] # ustartcalls["majestic"]
    /\ Len(calls["ahrefs"]) = ahrefs_limiter.calls_per_unit
    /\ ui < Len(job_data.urls)

(***************************************************************************)
(* C14 as stated, for the records: in every record produced for a job the  *)
(* HTTPS (secure) field is "Yes" or "No", never "N/A".                     *)
(***************************************************************************)
C14_SecureIsYesOrNo ==
    upath # "none" => result["secure"] \in {"Yes", "No"}

(***************************************************************************)
(* C14 amended: the value check_https reports is "Yes" exactly when the    *)
(* HTTPS request returned status 200 and "No" in every other case, never   *)
(* "N/A"; a record process_url builds on its normal path carries that      *)
(* value, so its secure field is "Yes" or "No"; the records of the other   *)
(* paths (the timeout record, the fallback of process_url, the "Error"     *)
(* placeholder) carry "N/A".                                               *)
(***************************************************************************)
C14_SecureFromProbe ==
    [][/\ (upc = "https" /\ uphase = "call" /\ upc' \notin {"https", "loop"})
           => secure_result' = IF ud # ProbeTimeout THEN "Yes" ELSE "No"
       /\ (ui' # ui /\ upath' = "normal")
           => /\ result'["secure"] = secure_result
              /\ result'["secure"] \in {"Yes", "No"}
       /\ (ui' # ui /\ upath' \in {"timeout", "fallback", "error"})
           => result'["secure"] = NA]_vars

\* a record was built on the normal path after the HTTPS request had run
\* into its own timeout while the status probe had answered 200
C14_Witness ==
    /\ upath = "normal"
    /\ result["status_code"] = "200"
    /\ result["secure"] = "No"
    /\ ui = 2

(***************************************************************************)
(* C15: the url field of every record, whichever path produced it (normal  *)
(* result, fallback, timeout record, "Error" placeholder), is the          *)
(* canonical form normalize_url yields for the URL of the descriptor the   *)
(* record is for.                                                          *)
(***************************************************************************)
C15_UrlIsNormalized ==
    upath # "none" => result["url"] = normalize_url(job_data.urls[ui])

(***************************************************************************)
(* C10: every record produced for a job, on any path (normal, fallback of  *)
(* process_url, timeout, "Error" placeholder of process_job), has exactly  *)
(* the fields url, status_code, secure and the fields of the sources the   *)
(* job's descriptor enables.                                               *)
(***************************************************************************)
C10_ExactFieldSet ==
    upath # "none" =>
        DOMAIN result = {"url", "status_code", "secure"} \cup EnabledFields

\* the placeholder was produced for a job with some source enabled and
\* some source disabled
C10_Witness ==
    /\ upath = "error"
    /\ job_data.use_ahrefs
    /\ ~job_data.use_majestic
    /\ DOMAIN result = {"url", "status_code", "secure",
                        "ahrefs_dr", "ahrefs_refdomains", "ahrefs_traffic"}

(***************************************************************************)
(* C16: between two listings of the job directory (one iteration of the    *)
(* main loop, ended by the sleep of 712) at most one descriptor is handed  *)
(* to process_job.                                                         *)
(***************************************************************************)
C16_OnePerIteration == wloaded <= 1

(***************************************************************************)
(* C17: when the loop of main visits a descriptor that has no status       *)
(* record and cannot be used as a job (its text is not JSON, or it is JSON *)
(* but no job object), the visit renames the descriptor out of the queue,  *)
(* so that no later listing holds it.                                      *)
(***************************************************************************)
C17_UnusableIsQuarantined ==
    [][\A j \in JobIds :
          (/\ wpc = "iter"
           /\ j \in wtodo
           /\ j \notin wtodo'
           /\ ~Exists(status[j])
           /\ Exists(descr[j])
           /\ ~IsJson(descr[j]))
          => (j \in quarantined' /\ ~Exists(descr'[j]))]_vars

(***************************************************************************)
(* C18: a write of the result file that fails while fewer than             *)
(* max_attempts failures of the file system are still to come does not end *)
(* the job's try block: the write is attempted again, and the job goes on  *)
(* to its completed record.  (process_job reaches the write once per job,  *)
(* so every step taken from there is the first attempt.)                   *)
(***************************************************************************)
C18_TransientWriteRetried ==
    [][(wpc = "save" /\ oserrors < max_attempts) => wpc' # "err_open"]_vars

(***************************************************************************)
(* C19: a job whose status record shows `error` has no artifact file,      *)
(* wherever in process_job the failure happened.                           *)
(***************************************************************************)
C19_ErrorLeavesNoArtifact ==
    \A j \in JobIds : ShowsStatus(status[j], "error") => ~Exists(artifact[j])

(***************************************************************************)
(* C20: at startup the worker visits every status record of its listing    *)
(* before it enters the main loop; the visit of a record whose descriptor  *)
(* does not exist removes that record and no other, the visit of a record  *)
(* whose descriptor exists changes no status record; so every record that  *)
(* had no descriptor when the listing was taken has been removed when the  *)
(* loop is entered.                                                        *)
(***************************************************************************)
C20_StartupRemovesOrphans ==
    [][/\ (wpc = "cleanup" /\ wpc' = "cleanup" /\ wstart' # wstart) =>
            \A j \in JobIds :
                status'[j] = IF j \in wstart \ wstart' /\ ~Exists(descr[j])
                             THEN NoFile
                             ELSE status[j]
       /\ (wpc = "cleanup" /\ wpc' = "scan") =>
            /\ wstart = {}
            /\ stale \subseteq cleaned]_vars

\* the worker was restarted while job a was being processed and its
\* descriptor had been removed; the record of a is gone when the loop is
\* entered, the record of the finished job b, whose descriptor exists, is
\* still there
C20_Witness ==
    /\ wpc = "scan"
    /\ stale = {"a"}
    /\ cleaned = {"a"}
    /\ ~Exists(status["a"])
    /\ ShowsStatus(status["b"], "completed")
    /\ Exists(descr["b"])

(***************************************************************************)
(* C21: a caller of wait_if_needed returns without waiting only when fewer *)
(* than K calls are retained in the window; when K are retained it returns *)
(* no earlier than the oldest retained timestamp plus W.  On a limiter     *)
(* that starts empty, of the first K+1 callers to return the last returns  *)
(* no earlier than W after the first (K = 2, W = 1: the third admission is *)
(* at least 1 time unit after the first).                                  *)
(***************************************************************************)
Returned == {t \in Tasks : tret[t] # << >>}

FirstReturn == CHOOSE r \in {tret[t][1] : t \in Returned} :
                   \A t \in Returned : r <= tret[t][1]

C21_WaitsForOldestRetained ==
    [][/\ \A t \in Tasks :
             (tpc[t] # "done" /\ tpc'[t] = "done") =>
                 IF tpc[t] = "lock"
                 THEN Len(CleanOldCalls(calls[RL], clock, unit_time[RL]))
                          < calls_per_unit[RL]
                 ELSE tret'[t][1] >= calls[RL][1] + unit_time[RL]
       /\ (Cardinality(Returned') > calls_per_unit[RL]) =>
             \E t \in Returned' :
                 tret'[t][1] >= FirstReturn' + unit_time[RL]]_vars

\* K = 2, W = 1: two callers returned at time 0, the third at time 1
C21_Witness ==
    /\ calls_per_unit[RL] = 2
    /\ unit_time[RL] = 1
    /\ Returned = Tasks
    /\ Cardinality({t \in Tasks : tret[t] = <<0>>}) = 2
    /\ Cardinality({t \in Tasks : tret[t] = <<1>>}) = 1

(***************************************************************************)
(* C22: every caller of wait_if_needed, whether it queues for the lock or  *)
(* sleeps inside the limiter, eventually returns, however many callers     *)
(* use the limiter at the same time and however often they come back.      *)
(***************************************************************************)
C22_EveryCallReturns ==
    \A t \in Tasks : (tpc[t] \in {"lock", "sleep"}) ~> (tpc[t] = "done")

\* a caller queues for the lock while another one sleeps holding it
C22_Witness ==
    \E t, u \in Tasks :
        /\ tpc[t] = "lock"
        /\ tpc[u] = "sleep"
        /\ lock[RL] = Held(u)
        /\ clock < twake[u]

(***************************************************************************)
(* C23: the requests of one URL (status fetch, HTTPS probe, the requests   *)
(* of every enabled source) are in flight together: when one of them       *)
(* settles, none of the others is still waiting to be started.             *)
(***************************************************************************)
C23_AllInFlightTogether ==
    [][(/\ upc \notin {"loop", "build"}
        /\ uphase = "call"
        /\ uphase' = "enter"
        /\ upc' # "loop")
       => StageAfter(StageIndex(upc)) = "build"]_vars

(***************************************************************************)
(* C24: the retention pass removes a file of a job only while the job's    *)
(* status record is terminal and older than 24 hours, and when it has      *)
(* dealt with a job none of the job's three files (artifact, descriptor,   *)
(* status record) is left.                                                 *)
(***************************************************************************)
C24_RetentionRemovesTogether ==
    [][/\ (wpc = "reap" /\ <<descr, status, artifact>>' # <<descr, status, artifact>>
              /\ rfiles' # rfiles) =>
            (rjob \in old /\ IsTerminal(status[rjob]))
       /\ (rjob # NoJob /\ rjob' = NoJob) =>
            /\ ~Exists(artifact'[rjob])
            /\ ~Exists(descr'[rjob])
            /\ ~Exists(status'[rjob])]_vars

(***************************************************************************)
(* C25: for each combination of enabled sources the header row is "URL",   *)
(* "Status Code", the columns of the enabled sources in the order Majestic *)
(* (Topics), Ahrefs (Referring Domains, Traffic, Domain Rating),           *)
(* DataForSEO (Referring Domains, Traffic, Rank), and "HTTPS" last; the    *)
(* header row is the same for every result list, and the data rows follow  *)
(* the order of the result list, one per record, with as many cells as     *)
(* there are headers.                                                      *)
(***************************************************************************)
SourceColumns(use, cols) == IF use THEN cols ELSE << >>

ExpectedHeaders ==
    <<"URL", "Status Code">>
    \o SourceColumns(export_args.use_majestic, <<"Majestic Topics">>)
    \o SourceColumns(export_args.use_ahrefs,
                     <<"Ahrefs Referring Domains", "Ahrefs Traffic",
                       "Ahrefs Domain Rating">>)
    \o SourceColumns(export_args.use_dataforseo,
                     <<"DataForSEO Referring Domains", "DataForSEO Traffic",
                       "DataForSEO Rank">>)
    \o <<"HTTPS">>

C25_HeaderRowAndOrder ==
    xpc \in {"rows", "returned"} =>
        /\ table[1] = ExpectedHeaders
        /\ table[1][Len(table[1])] = "HTTPS"
        /\ \A k \in 2..Len(table) :
              /\ Len(table[k]) = Len(table[1])
              /\ table[k][1] = export_args.results[k - 1].url.s
        /\ (xpc = "returned" => Len(table) = Len(export_args.results) + 1)

\* Ahrefs and DataForSEO enabled, Majestic not; two records, the second
\* without any source field
C25_Witness ==
    /\ xpc = "returned"
    /\ ~export_args.use_majestic
    /\ export_args.use_ahrefs
    /\ export_args.use_dataforseo
    /\ table = << <<"URL", "Status Code", "Ahrefs Referring Domains",
                    "Ahrefs Traffic", "Ahrefs Domain Rating",
                    "DataForSEO Referring Domains", "DataForSEO Traffic",
                    "DataForSEO Rank", "HTTPS">>,
                  <<"http://a.com", "200", "5", NA, "71", "9", "0", "3",
                    "Yes">>,
                  <<"c.net/x", "Timeout", NA, NA, NA, NA, NA, NA, NA>> >>

(***************************************************************************)
(* C26: whatever the external sources do (answer at once, or not before    *)
(* the request's own timeout or the URL's deadline), the worker is never   *)
(* at one URL for longer than URL_TIMEOUT, and process_job returns with    *)
(* the status record of the job in a terminal state (completed, with every *)
(* URL of the descriptor counted).                                         *)
(***************************************************************************)
C26_JobTerminates ==
    /\ []((ui > 0 \/ upc # "loop") => clock <= ustart + URL_TIMEOUT)
    /\ <>(/\ wpc = "returned"
          /\ ShowsStatus(status[TheJob], "completed")
          /\ status[TheJob].progress = Len(job_data.urls)
          /\ Exists(artifact[TheJob]))

\* the job has returned although no request of its two URLs was answered:
\* both ran into the deadline
C26_Witness ==
    /\ wpc = "returned"
    /\ ShowsStatus(status[TheJob], "completed")
    /\ Len(results) = 2
    /\ \A k \in 1..2 : results[k].status_code = "Timeout"
    /\ clock = ustart + URL_TIMEOUT

(***************************************************************************)
(* C27: no descriptor that submit_job writes is renamed out of the queue   *)
(* by the worker: a job submit_job has given an id to is never             *)
(* quarantined, however its write interleaves with the worker's scan.      *)
(***************************************************************************)
C27_SubmittedNeverQuarantined == \A j \in submitted : j \notin quarantined

(***************************************************************************)
(* C28: a job that was being processed when the worker stopped is not left *)
(* behind by the restart: when the main loop is entered after the startup  *)
(* cleanup, no job whose descriptor is present has a `processing` record   *)
(* (discovery passes over every descriptor that has a status record, and   *)
(* retention over every record that is not terminal, so nothing would      *)
(* take such a job up again).                                              *)
(***************************************************************************)
C28_RestartLeavesNoJobBehind ==
    [][(wpc = "cleanup" /\ wpc' = "scan") =>
          \A j \in JobIds :
              ~(ShowsStatus(status'[j], "processing") /\ Exists(descr'[j]))]_vars

(***************************************************************************)
(* C29: in every reachable state a job whose status record shows           *)
(* `completed` has its artifact file.                                      *)
(***************************************************************************)
C29_CompletedHasArtifact ==
    \A j \in JobIds : ShowsStatus(status[j], "completed") => Exists(artifact[j])

====
